---- MODULE Spec2Model ----
(***************************************************************************)
(* A model of the sub-agent core of Lemlist-MCP: TaskComplexityAnalyzer,   *)
(* TaskRouter, QualityAssurance, ContextManager, ErrorRecoverySystem and   *)
(* SubAgentOrchestrator.                                                   *)
(*                                                                         *)
(* Conventions.  A JavaScript value that may be undefined is a sequence of *)
(* length at most one: None is undefined, Some(v) is the value v.  Array   *)
(* fields that the code only tests with ?.includes or ?.length are plain   *)
(* sequences or lengths, the absent array being the empty one (both make   *)
(* every such test false).  Scores are kept as integers: a complexity      *)
(* score is held times 100, a quality score times 900 (QScale), so that    *)
(* every weighted sum and every threshold of the code is exact; the        *)
(* floating-point sums of the analyzer agree with the exact ones on every  *)
(* combination of sub-scores 1..10 (checked outside the model).            *)
(***************************************************************************)
EXTENDS Integers, Sequences, FiniteSets, TLC

VARIABLES
  task,        \* the task handed to the operation under analysis
  routing,     \* TaskRouter.route(task): the routing decision (None before)
  rphase,      \* position of the routing specification: "input" | "routed"
  etier,       \* autoEscalateTier: the currentTier argument
  efailure,    \* autoEscalateTier: the failure argument
  eresult,     \* autoEscalateTier: what the call returned (None before)
  qtask,       \* validateSpecialistRecommendation: the task argument
  qrec,        \* validateSpecialistRecommendation: the recommendation argument
  qhidden,     \* what the sub-checks missing from src/ return for qrec
  qresult,     \* validateSpecialistRecommendation: what it returned (None before)
  now,         \* the clock, in milliseconds since the process started
  cache,       \* SpecialistCacheStorage.cache: cache key -> entry
  events,      \* AnalyticsLogStorage.events
  specialistMetrics, \* AnalyticsLogStorage.specialistMetrics: specialist -> metrics
  cop,         \* the last ContextManager call: its name, arguments and result
  stack,       \* the processTask calls in progress, the innermost last
  ret,         \* what the last processTask call to return returned (None before)
  contexts,    \* ProjectContextStorage.contexts, by version
  patternLib,  \* PatternLibraryStorage.patterns, in insertion order
  performanceMetrics, \* SubAgentOrchestrator.performanceMetrics, in insertion order
  feedbackHistory,    \* ErrorRecoverySystem.feedbackHistory
  qaHidden,    \* what the quality sub-checks missing from src/ return
  failureHidden, \* what the failure detectors missing from src/ return
  attempts,    \* the processTask calls made for the caller's current call
  recoveries,  \* executeRecoveryStrategy calls made for the caller's current call
  qaCalls,     \* validateSpecialistRecommendation calls made for it
  calls,       \* the calls callers have made
  submitted,   \* the processTask calls callers have made: task, options, time
  nextTaskId,  \* the number the next task id carries
  nextPatternId, \* the number the next pattern id carries
  feedback,    \* the processFeedback calls made, each with what it did
  usage,       \* the updatePatternUsage calls in progress, by caller
  usageLog,    \* the outcomes of the updatePatternUsage calls that returned
  inflight,    \* the processTask calls overlapping callers have in progress
  gate,        \* a handleQualityFailure call: its arguments and whether it ran
  completing,  \* the task completions callers have in progress, by caller
  updating,    \* the updateProjectContext calls in progress, by caller
  detection,   \* a detectImplementationFailure call: its arguments and its result
  caching,     \* the cacheSpecialistConsultation calls in progress, by caller
  searching,   \* the getRelevantPatterns calls in progress, by caller
  thresholds   \* the tier thresholds adjustComplexityThresholds is fed (None before)

None == <<>>
Some(v) == <<v>>
IsSome(o) == Len(o) = 1
Val(o) == o[1]

\* JavaScript's NaN, which fails every comparison
NaN == 0 - 1

Range(s) == {s[i] : i \in 1..Len(s)}
Includes(s, x) == x \in Range(s)
Min(a, b) == IF a <= b THEN a ELSE b
Max(a, b) == IF a >= b THEN a ELSE b

\* the record base with the fields of upd laid over it
With(base, upd) == [f \in DOMAIN base |-> IF f \in DOMAIN upd THEN upd[f] ELSE base[f]]

\* String.prototype.includes: k occurs in s as a substring
StrIncludes(s, k) ==
  \E i \in 1..(Len(s) - Len(k) + 1) : SubSeq(s, i, i + Len(k) - 1) = k

------------------------------------------------------------------------------
(* Tasks *)

\* a task none of whose optional fields is set
NeutralTask ==
  [ description |-> None, domain |-> None, complexity |-> None,
    complexityScore |-> None, requirements |-> None,
    technologies |-> None, patterns |-> None,
    scope |-> None, files |-> 0, integrations |-> 0, governance |-> FALSE,
    databases |-> 0, apis |-> 0, services |-> 0, crossTeam |-> FALSE,
    perfRequirements |-> <<>>, scalability |-> <<>>,
    compliance |-> <<>>, businessLogic |-> <<>>,
    dataRisk |-> <<>>, systemRisk |-> <<>>, implementationRisk |-> <<>>,
    timelinePressure |-> None, escalation |-> None ]

------------------------------------------------------------------------------
(* TaskComplexityAnalyzer *)

ScopeBase(t) ==
  IF t.scope = Some("single-function") \/ t.files = 1 THEN 1
  ELSE IF t.files > 1 /\ t.files <= 5 THEN 3
  ELSE IF t.files > 5 \/ t.scope = Some("system-wide") THEN 5
  ELSE IF t.scope = Some("cross-system") \/ t.integrations > 0 THEN 8
  ELSE IF t.scope = Some("enterprise") \/ t.governance THEN 10
  ELSE 1

ScopeRaw(t) ==
  ScopeBase(t)
  + (IF t.databases > 1 THEN 2 ELSE 0)
  + (IF t.apis > 3 THEN 2 ELSE 0)
  + (IF t.services > 2 THEN 3 ELSE 0)
  + (IF t.crossTeam THEN 2 ELSE 0)

analyzeScopeComplexityUnclamped(t) == ScopeRaw(t)

analyzeScopeComplexity(t) == Min(ScopeRaw(t), 10)

complexTechnologies ==
  {"microservices", "distributed-systems", "blockchain", "machine-learning",
   "real-time-processing", "streaming"}

complexPatterns ==
  {"event-sourcing", "cqrs", "saga", "circuit-breaker",
   "distributed-transactions", "consensus-algorithms"}

\* optional array ?.some(x => set.includes(x))
SomeIn(opt, set) == IsSome(opt) /\ Range(Val(opt)) \cap set # {}

analyzeTechnicalComplexity(t) ==
  Min(1
      + (IF SomeIn(t.technologies, complexTechnologies) THEN 3 ELSE 0)
      + (IF SomeIn(t.patterns, complexPatterns) THEN 4 ELSE 0)
      + (IF t.integrations > 0 THEN Min(t.integrations * 2, 6) ELSE 0)
      + (IF Includes(t.perfRequirements, "sub-second") THEN 3 ELSE 0)
      + (IF Includes(t.perfRequirements, "high-throughput") THEN 2 ELSE 0)
      + (IF Includes(t.perfRequirements, "real-time") THEN 4 ELSE 0)
      + (IF Includes(t.scalability, "horizontal") THEN 2 ELSE 0)
      + (IF Includes(t.scalability, "auto-scaling") THEN 3 ELSE 0)
      + (IF Includes(t.scalability, "global-distribution") THEN 4 ELSE 0),
      10)

\* A lookup table written as an object literal answers a name it does not
\* list with what Object.prototype holds under that name.  These three names
\* are functions of length 0 there (and in Array.prototype); the inherited
\* functions of other lengths (constructor, hasOwnProperty, ...) are left out.
inheritedFunctions == {"toString", "valueOf", "toLocaleString"}

complexDomains(d) ==
  CASE d = "financial" -> 4 [] d = "healthcare" -> 5 [] d = "security" -> 4
    [] d = "ml-ai" -> 5 [] d = "blockchain" -> 6 [] d = "embedded" -> 4
    [] d = "real-time" -> 4 [] d = "distributed-systems" -> 5
    [] d = "data-science" -> 4 [] OTHER -> 0

complianceComplexity(c) ==
  CASE c = "gdpr" -> 3 [] c = "hipaa" -> 4 [] c = "pci-dss" -> 4
    [] c = "sox" -> 3 [] c = "iso-27001" -> 3 [] c = "fda" -> 5
    [] OTHER -> 0

RECURSIVE SumCompliance(_)
SumCompliance(s) ==
  IF s = <<>> THEN 0 ELSE complianceComplexity(Head(s)) + SumCompliance(Tail(s))

\* score += complexDomains[task.domain] with an inherited function for the
\* entry turns score into a string, and Math.min(score, 10) is then NaN; the
\* same holds for an entry of task.compliance
analyzeDomainComplexity(t) ==
  IF (IsSome(t.domain) /\ Val(t.domain) \in inheritedFunctions)
     \/ (\E i \in DOMAIN t.compliance : t.compliance[i] \in inheritedFunctions)
    THEN NaN
    ELSE
  Min(1
      + (IF IsSome(t.domain) THEN complexDomains(Val(t.domain)) ELSE 0)
      + SumCompliance(t.compliance)
      + (IF Includes(t.businessLogic, "complex-calculations") THEN 2 ELSE 0)
      + (IF Includes(t.businessLogic, "multi-step-workflows") THEN 3 ELSE 0)
      + (IF Includes(t.businessLogic, "state-machines") THEN 3 ELSE 0)
      + (IF Includes(t.businessLogic, "rule-engines") THEN 4 ELSE 0),
      10)

analyzeRiskLevel(t) ==
  Min(1
      + (IF Includes(t.dataRisk, "pii") THEN 3 ELSE 0)
      + (IF Includes(t.dataRisk, "financial") THEN 4 ELSE 0)
      + (IF Includes(t.dataRisk, "medical") THEN 4 ELSE 0)
      + (IF Includes(t.dataRisk, "sensitive") THEN 2 ELSE 0)
      + (IF Includes(t.systemRisk, "production-critical") THEN 4 ELSE 0)
      + (IF Includes(t.systemRisk, "revenue-impacting") THEN 3 ELSE 0)
      + (IF Includes(t.systemRisk, "user-facing") THEN 2 ELSE 0)
      + (IF Includes(t.systemRisk, "data-loss-potential") THEN 5 ELSE 0)
      + (IF Includes(t.implementationRisk, "breaking-changes") THEN 3 ELSE 0)
      + (IF Includes(t.implementationRisk, "migration-required") THEN 4 ELSE 0)
      + (IF Includes(t.implementationRisk, "rollback-difficult") THEN 3 ELSE 0)
      + (IF Includes(t.implementationRisk, "external-dependencies") THEN 2 ELSE 0)
      + (IF t.timelinePressure = Some("urgent") THEN 2 ELSE 0)
      + (IF t.timelinePressure = Some("critical") THEN 4 ELSE 0),
      10)

\* the tier of an overall score held times 100
\* every comparison with NaN is false
TierOfScore(score100) ==
  IF score100 = NaN THEN "TIER_3"
  ELSE IF score100 <= 300 THEN "DIRECT"
  ELSE IF score100 <= 600 THEN "TIER_1"
  ELSE IF score100 <= 800 THEN "TIER_2"
  ELSE "TIER_3"

\* confidence, held times 100: min(0.25 * #(sub-scores > 1), 1.0)
calculateConfidence(c) ==
  Min(25 * Cardinality({k \in {"scope", "technical", "domain", "risk"} : c[k] > 1}),
      100)

calculateOverallComplexity(c) ==
  LET score100 == IF c.domain = NaN THEN NaN
                  ELSE c.scope * 30 + c.technical * 30 + c.domain * 25 + c.risk * 15
  IN [ overallScore |-> score100, tier |-> TierOfScore(score100),
       breakdown |-> c, confidence |-> calculateConfidence(c) ]

analyzeTask(t) ==
  calculateOverallComplexity(
    [ scope |-> analyzeScopeComplexity(t),
      technical |-> analyzeTechnicalComplexity(t),
      domain |-> analyzeDomainComplexity(t),
      risk |-> analyzeRiskLevel(t) ])

------------------------------------------------------------------------------
(* TaskRouter *)

LowerChar(c) ==
  CASE c = "A" -> "a" [] c = "B" -> "b" [] c = "C" -> "c" [] c = "D" -> "d"
    [] c = "E" -> "e" [] c = "F" -> "f" [] c = "G" -> "g" [] c = "H" -> "h"
    [] c = "I" -> "i" [] c = "J" -> "j" [] c = "K" -> "k" [] c = "L" -> "l"
    [] c = "M" -> "m" [] c = "N" -> "n" [] c = "O" -> "o" [] c = "P" -> "p"
    [] c = "Q" -> "q" [] c = "R" -> "r" [] c = "S" -> "s" [] c = "T" -> "t"
    [] c = "U" -> "u" [] c = "V" -> "v" [] c = "W" -> "w" [] c = "X" -> "x"
    [] c = "Y" -> "y" [] c = "Z" -> "z" [] OTHER -> c

RECURSIVE ToLowerCase(_)
ToLowerCase(s) ==
  IF Len(s) = 0 THEN ""
  ELSE IF Len(s) = 1 THEN LowerChar(s)
  ELSE LET h == Len(s) \div 2
       IN ToLowerCase(SubSeq(s, 1, h)) \o ToLowerCase(SubSeq(s, h + 1, Len(s)))

\* Array.prototype.join(sep) of an array of strings
RECURSIVE Join(_, _)
Join(a, sep) ==
  IF Len(a) = 0 THEN ""
  ELSE IF Len(a) = 1 THEN a[1]
  ELSE a[1] \o sep \o Join(Tail(a), sep)

\* `${x}` of a possibly undefined string
Interp(o) == IF IsSome(o) THEN Val(o) ELSE "undefined"
\* `${a?.join(' ')}` of a possibly undefined array
InterpJoin(o) == IF IsSome(o) THEN Join(Val(o), " ") ELSE "undefined"

\* the domain -> keywords table, in the order Object.entries walks it
domainKeywords ==
  << <<"data", <<"database", "query", "analytics", "etl", "warehouse", "lake">> >>,
     <<"security", <<"auth", "oauth", "jwt", "encryption", "vulnerability", "compliance">> >>,
     <<"performance", <<"optimization", "caching", "scaling", "latency", "throughput">> >>,
     <<"integration", <<"api", "webhook", "service", "microservice", "messaging">> >>,
     <<"frontend", <<"ui", "ux", "react", "vue", "angular", "component">> >>,
     <<"architecture", <<"design", "pattern", "structure", "system", "scalability">> >>,
     <<"ml", <<"machine-learning", "ai", "model", "prediction", "classification">> >>,
     <<"testing", <<"test", "qa", "automation", "ci/cd", "deployment">> >> >>

taskText(t) ==
  ToLowerCase(Interp(t.description) \o " " \o InterpJoin(t.requirements)
              \o " " \o InterpJoin(t.technologies))

identifyDomain(t) ==
  IF IsSome(t.domain) /\ Val(t.domain) # "" THEN Val(t.domain)
  ELSE LET text == taskText(t)
           hits == {i \in 1..Len(domainKeywords) :
                      \E k \in Range(domainKeywords[i][2]) : StrIncludes(text, k)}
       IN IF hits = {} THEN "general"
          ELSE domainKeywords[CHOOSE i \in hits : \A j \in hits : i <= j][1]

\* specialistMapping[tier]: the domains with an entry of their own
specialistMapping(tier, domain) ==
  CASE tier = "TIER_1" ->
         (CASE domain = "data" -> <<"data-generalist">>
            [] domain = "security" -> <<"security-generalist">>
            [] domain = "performance" -> <<"performance-generalist">>
            [] domain = "integration" -> <<"integration-generalist">>
            [] domain = "frontend" -> <<"frontend-generalist">>
            [] domain = "architecture" -> <<"architecture-generalist">>
            [] domain = "general" -> <<"architecture-generalist">>
            [] OTHER -> <<>>)
    [] tier = "TIER_2" ->
         (CASE domain = "data" -> <<"database-specialist">>
            [] domain = "security" -> <<"auth-systems-specialist">>
            [] domain = "performance" -> <<"performance-optimization-specialist">>
            [] domain = "integration" -> <<"api-design-specialist">>
            [] domain = "ml" -> <<"ml-integration-specialist">>
            [] domain = "testing" -> <<"testing-strategy-specialist">>
            [] domain = "general" -> <<"database-specialist", "api-design-specialist">>
            [] OTHER -> <<>>)
    [] tier = "TIER_3" ->
         (CASE domain = "data" -> <<"data-architect">>
            [] domain = "security" -> <<"security-architect">>
            [] domain = "integration" -> <<"integration-architect">>
            [] domain = "architecture" -> <<"system-architect">>
            [] domain = "scale" -> <<"scale-architect">>
            [] domain = "governance" -> <<"governance-architect">>
            [] domain = "general" -> <<"system-architect">>
            [] OTHER -> <<>>)
    [] OTHER -> <<>>

\* specialistMapping[tier]?.[domain] || specialistMapping[tier]?.['general'] || []
\* For a domain that names an inherited function the first operand is that
\* function: it is truthy, so there is no fallback, and its length is 0, which
\* is all selectBestSpecialist reads of it; it is held as the empty list.
getSpecialistsForDomain(domain, tier) ==
  IF specialistMapping(tier, domain) # <<>> THEN specialistMapping(tier, domain)
  ELSE IF domain \in inheritedFunctions THEN <<>>
  ELSE specialistMapping(tier, "general")

Caps(d, tech, lo, hi) ==
  [domains |-> d, technologies |-> tech, minComplexity |-> lo, maxComplexity |-> hi]

\* TaskRouter.getSpecialistCapabilities; complexity bounds are held times 100
getSpecialistCapabilities(sp) ==
  CASE sp = "architecture-generalist" ->
         Caps({"architecture", "design", "system"},
              {"microservices", "design-patterns", "scalability"}, 300, 600)
    [] sp = "security-generalist" ->
         Caps({"security", "auth"}, {"oauth", "jwt", "encryption"}, 300, 600)
    [] sp = "performance-generalist" ->
         Caps({"performance", "optimization"},
              {"caching", "monitoring", "profiling"}, 300, 600)
    [] sp = "data-generalist" ->
         Caps({"data", "database"}, {"sql", "nosql", "analytics"}, 300, 600)
    [] sp = "integration-generalist" ->
         Caps({"integration", "api"}, {"rest", "graphql", "webhooks"}, 300, 600)
    [] sp = "frontend-generalist" ->
         Caps({"frontend", "ui"}, {"react", "vue", "angular"}, 300, 600)
    [] sp = "database-specialist" ->
         Caps({"data", "database"}, {"postgresql", "redis", "mongodb"}, 600, 800)
    [] sp = "api-design-specialist" ->
         Caps({"integration", "api"}, {"rest", "graphql", "openapi"}, 600, 800)
    [] sp = "auth-systems-specialist" ->
         Caps({"security", "auth"}, {"oauth2", "saml", "jwt", "mfa"}, 600, 800)
    [] sp = "performance-optimization-specialist" ->
         Caps({"performance"}, {"profiling", "optimization", "monitoring"}, 600, 800)
    [] sp = "ml-integration-specialist" ->
         Caps({"ml", "ai"}, {"tensorflow", "pytorch", "ml-apis"}, 600, 800)
    [] sp = "testing-strategy-specialist" ->
         Caps({"testing", "qa"}, {"jest", "cypress", "ci-cd"}, 600, 800)
    [] sp = "system-architect" ->
         Caps({"architecture", "system"}, {"enterprise", "distributed-systems"}, 800, 1000)
    [] sp = "integration-architect" ->
         Caps({"integration"}, {"service-mesh", "event-driven"}, 800, 1000)
    [] sp = "scale-architect" ->
         Caps({"scale", "performance"},
              {"horizontal-scaling", "distributed-systems"}, 800, 1000)
    [] sp = "security-architect" ->
         Caps({"security"}, {"enterprise-security", "compliance"}, 800, 1000)
    [] sp = "data-architect" ->
         Caps({"data"}, {"data-lakes", "warehouses", "governance"}, 800, 1000)
    [] sp = "governance-architect" ->
         Caps({"governance"}, {"compliance", "policy-enforcement"}, 800, 1000)

\* task.technologies.filter(tech => list.includes(tech)).length
CountIn(a, set) == Cardinality({i \in 1..Len(a) : a[i] \in set})

calculateSpecialistScore(sp, t, complexity) ==
  LET caps == getSpecialistCapabilities(sp)
  IN (IF identifyDomain(t) \in caps.domains THEN 10 ELSE 0)
     + (IF IsSome(t.technologies)
          THEN 2 * CountIn(Val(t.technologies), caps.technologies) ELSE 0)
     + (IF complexity.overallScore >= caps.minComplexity
           /\ complexity.overallScore <= caps.maxComplexity THEN 5 ELSE 0)

\* a selection that keeps the last of the equally scored candidates in front
selectBestSpecialistLastOfEqual(specialists, t, complexity) ==
  IF Len(specialists) = 0 THEN None
  ELSE LET sc(i) == calculateSpecialistScore(specialists[i], t, complexity)
           best == CHOOSE i \in 1..Len(specialists) :
                     \A j \in 1..Len(specialists) :
                        sc(i) > sc(j) \/ (sc(i) = sc(j) /\ i >= j)
       IN Some(specialists[best])

\* the highest score wins; the sort is stable, so the first of the equally
\* scored candidates stays in front
selectBestSpecialist(specialists, t, complexity) ==
  IF Len(specialists) = 0 THEN None
  ELSE IF Len(specialists) = 1 THEN Some(specialists[1])
  ELSE LET sc(i) == calculateSpecialistScore(specialists[i], t, complexity)
           best == CHOOSE i \in 1..Len(specialists) :
                     \A j \in 1..Len(specialists) :
                        sc(i) > sc(j) \/ (sc(i) = sc(j) /\ i <= j)
       IN Some(specialists[best])

selectSpecialist(t, complexity) ==
  selectBestSpecialist(getSpecialistsForDomain(identifyDomain(t), complexity.tier),
                       t, complexity)

getProtocol(tier) ==
  CASE tier = "DIRECT" -> "direct-implementation"
    [] tier = "TIER_1" -> "quick-consultation"
    [] tier = "TIER_2" -> "deep-analysis"
    [] tier = "TIER_3" -> "architectural-coordination"

getQualityChecks(tier) ==
  CASE tier = "TIER_1" -> <<"syntax-check", "unit-tests", "code-review">>
    [] tier = "TIER_2" -> <<"syntax-check", "unit-tests", "integration-tests",
                            "code-review", "security-scan">>
    [] tier = "TIER_3" -> <<"syntax-check", "unit-tests", "integration-tests",
                            "e2e-tests", "code-review", "security-scan",
                            "performance-test", "architectural-review">>
    [] OTHER -> <<"syntax-check", "basic-test">>

\* TaskRouter.route; the context argument, options.tier included, is only
\* copied into routing.context and read by nothing.  estimatedTime (a rounded
\* floating-point product no operation of this model reads) is not carried.
route(t) ==
  LET complexity == analyzeTask(t)
  IN [ complexity |-> complexity,
       specialist |-> selectSpecialist(t, complexity),
       protocol |-> getProtocol(complexity.tier),
       qualityChecks |-> getQualityChecks(complexity.tier),
       tier |-> complexity.tier ]

\* SpecialistRegistry.specialists: the tier the registry lists a specialist under
RegistryTier(sp) ==
  CASE sp \in {"architecture-generalist", "security-generalist",
               "performance-generalist", "data-generalist",
               "integration-generalist", "frontend-generalist"} -> 1
    [] sp \in {"database-specialist", "api-design-specialist",
               "auth-systems-specialist", "performance-optimization-specialist",
               "ml-integration-specialist", "testing-strategy-specialist"} -> 2
    [] sp \in {"system-architect", "integration-architect", "scale-architect",
               "security-architect", "data-architect", "governance-architect"} -> 3
    [] OTHER -> 0

------------------------------------------------------------------------------
(* ErrorRecoverySystem: tier escalation *)

Tiers == <<"DIRECT", "TIER_1", "TIER_2", "TIER_3", "EXTERNAL">>

\* escalationMatrix[currentTier], None for a tier without an entry
escalationMatrixSkipping(tier) ==
  CASE tier = "DIRECT" -> Some([to |-> "TIER_1", reason |-> "Direct implementation failed"])
    [] tier = "TIER_1" -> Some([to |-> "TIER_3", reason |-> "Tier 1 consultation insufficient"])
    [] tier = "TIER_2" -> Some([to |-> "TIER_3", reason |-> "Tier 2 analysis incomplete"])
    [] tier = "TIER_3" -> Some([to |-> "EXTERNAL", reason |-> "Internal expertise exceeded"])
    [] OTHER -> None

escalationMatrix(tier) ==
  CASE tier = "DIRECT" -> Some([to |-> "TIER_1", reason |-> "Direct implementation failed"])
    [] tier = "TIER_1" -> Some([to |-> "TIER_2", reason |-> "Tier 1 consultation insufficient"])
    [] tier = "TIER_2" -> Some([to |-> "TIER_3", reason |-> "Tier 2 analysis incomplete"])
    [] tier = "TIER_3" -> Some([to |-> "EXTERNAL", reason |-> "Internal expertise exceeded"])
    [] OTHER -> None

preserveContext(failure) ==
  [ originalTask |-> failure.task, attemptedApproach |-> failure.approach,
    errorDetails |-> failure.errorDetails, environment |-> failure.environment,
    timestamp |-> failure.timestamp ]

expertiseMap(type) ==
  CASE type = "syntax" -> <<"code-review-specialist">>
    [] type = "logic" -> <<"algorithm-specialist", "testing-specialist">>
    [] type = "integration" -> <<"integration-specialist", "api-specialist">>
    [] type = "performance" -> <<"performance-specialist">>
    [] type = "security" -> <<"security-specialist">>
    [] OTHER -> <<>>

\* the elements of s in order of first occurrence (a Set's iteration order)
RECURSIVE Dedup(_)
Dedup(s) ==
  IF s = <<>> THEN <<>>
  ELSE LET r == Dedup(SubSeq(s, 1, Len(s) - 1))
       IN IF Includes(r, s[Len(s)]) THEN r ELSE Append(r, s[Len(s)])

RECURSIVE FlatExperts(_)
FlatExperts(types) ==
  IF types = <<>> THEN <<>> ELSE expertiseMap(Head(types)) \o FlatExperts(Tail(types))

identifyRequiredExpertise(failure) ==
  IF IsSome(failure.failureTypes) THEN Dedup(FlatExperts(Val(failure.failureTypes)))
  ELSE <<>>

\* failure.severity is undefined (None) or a number
calculateUrgency(failure) ==
  LET sev == IF IsSome(failure.severity) THEN Val(failure.severity) ELSE 0
  IN Min(1
         + (IF sev >= 8 THEN 3 ELSE IF sev >= 5 THEN 2 ELSE IF sev >= 3 THEN 1 ELSE 0)
         + (IF failure.affectsProduction THEN 2 ELSE 0)
         + (IF failure.blocksOtherWork THEN 1 ELSE 0),
         5)

\* ErrorRecoverySystem calls these five estimate helpers but no file under
\* src/ defines them.  The specification gives them no behaviour beyond
\* filling the escalation record; an opaque value stands for what they return.
estimateResolutionTime(to, failure) == "estimate"
estimateEscalationTime(strategy) == "estimate"
calculateRequiredResources(strategy) == "estimate"
estimateSuccessProbability(strategy) == "estimate"
createEscalationRollbackPlan(strategy) == "estimate"

autoEscalateTier(currentTier, failure) ==
  LET escalation == escalationMatrix(currentTier)
  IN IF ~IsSome(escalation)
       THEN [ canEscalate |-> FALSE, reason |-> "Maximum tier reached",
              escalation |-> None ]
       ELSE LET strategy ==
                  [ from |-> currentTier,
                    to |-> Val(escalation).to,
                    reason |-> IF IsSome(failure.primaryCause)
                                  /\ Val(failure.primaryCause) # ""
                                 THEN Val(failure.primaryCause)
                                 ELSE Val(escalation).reason,
                    context |-> preserveContext(failure),
                    specialistRequirements |-> identifyRequiredExpertise(failure),
                    urgency |-> calculateUrgency(failure),
                    estimatedResolution |->
                      estimateResolutionTime(Val(escalation).to, failure) ]
            IN [ canEscalate |-> TRUE, reason |-> "",
                 escalation |-> Some(strategy),
                 timeline |-> estimateEscalationTime(strategy),
                 resources |-> calculateRequiredResources(strategy),
                 successProbability |-> estimateSuccessProbability(strategy),
                 rollbackPlan |-> createEscalationRollbackPlan(strategy) ]

------------------------------------------------------------------------------
(* QualityAssurance *)

\* Quality scores are fractions of QScale.
QScale == 9 * 100
Ge(x, y) == x # NaN /\ x >= y
Lt(x, y) == x # NaN /\ x < y

\* a recommendation none of whose fields is set; every field is a text
NoRecommendation ==
  [ approach |-> None, implementation |-> None, rationale |-> None,
    risks |-> None, timeline |-> None, resources |-> None,
    qualityMetrics |-> None, testingStrategy |-> None,
    description |-> None, testing |-> None, deployment |-> None,
    documentation |-> None, confidence |-> None ]

RecommendationKeys ==
  << "approach", "implementation", "rationale", "risks", "timeline", "resources",
     "qualityMetrics", "testingStrategy", "description", "testing", "deployment",
     "documentation" >>

\* JSON.stringify(recommendation): the keys that are set, each with its text
RECURSIVE StringifyFrom(_, _)
StringifyFrom(rec, i) ==
  IF i > Len(RecommendationKeys) THEN ""
  ELSE LET k == RecommendationKeys[i]
           rest == StringifyFrom(rec, i + 1)
       IN IF IsSome(rec[k])
            THEN "\"" \o k \o "\":\"" \o Val(rec[k]) \o "\"" \o
                 (IF rest = "" THEN "" ELSE "," \o rest)
            ELSE rest

stringifyRecommendation(rec) == "{" \o StringifyFrom(rec, 1) \o "}"

\* a field is truthy: set, and not the empty text
Truthy(o) == IsSome(o) /\ Val(o) # ""

\* QualityAssurance.getSpecialistCapabilities: the same answer for every specialist
qaSpecialistCapabilities ==
  [ domain |-> "integration", technologies |-> {"rest", "graphql", "webhooks"},
    minComplexity |-> 3, maxComplexity |-> 6 ]

calculateDomainMatch(specialistDomain, taskDomain) ==
  IF specialistDomain = taskDomain THEN 10 ELSE 5

checkComplexityFit(caps, complexityScore) ==
  IF complexityScore >= caps.minComplexity /\ complexityScore <= caps.maxComplexity
    THEN 10 ELSE 5

\* score = alignmentScore / 30; with an empty technologies array the
\* technology match is 0/0
checkExpertiseAlignment(specialist, t) ==
  LET caps == qaSpecialistCapabilities
      dp == IF Truthy(t.domain) THEN calculateDomainMatch(caps.domain, Val(t.domain)) ELSE 0
      fp == IF IsSome(t.complexityScore) /\ Val(t.complexityScore) # 0
              THEN checkComplexityFit(caps, Val(t.complexityScore)) ELSE 0
      n == IF IsSome(t.technologies) THEN Len(Val(t.technologies)) ELSE 1
      m == IF IsSome(t.technologies)
             THEN CountIn(Val(t.technologies), caps.technologies) ELSE 0
      score == IF n = 0 THEN NaN
               ELSE (QScale * ((dp + fp) * n + 10 * m)) \div (30 * n)
  IN [ passed |-> Ge(score, (7 * QScale) \div 10), score |-> score ]

checkCompleteness(rec) ==
  LET mentions(e) == IsSome(rec.description) /\ StrIncludes(Val(rec.description), e)
      present == {e \in {"implementation", "testing", "deployment"} :
                    Truthy(rec[e]) \/ mentions(e)}
  IN (QScale * Cardinality(present)) \div 3

checkClarity(rec) ==
  LET description == IF Truthy(rec.description) THEN Val(rec.description) ELSE ""
  IN IF Len(description) > 50 THEN (8 * QScale) \div 10 ELSE (4 * QScale) \div 10

checkFeasibility(rec) ==
  IF Truthy(rec.timeline) /\ Truthy(rec.resources)
    THEN (9 * QScale) \div 10 ELSE (6 * QScale) \div 10

checkBestPractices(rec) ==
  LET text == ToLowerCase(stringifyRecommendation(rec))
      present == {p \in {"error handling", "logging", "validation", "testing",
                         "documentation"} : StrIncludes(text, p)}
  IN (QScale * Cardinality(present)) \div 5

checkDocumentation(rec) ==
  IF Truthy(rec.documentation) THEN QScale ELSE (3 * QScale) \div 10

checkTestability(rec) ==
  LET text == ToLowerCase(stringifyRecommendation(rec))
  IN IF \E w \in {"test", "mock", "stub", "assertion"} : StrIncludes(text, w)
       THEN (9 * QScale) \div 10 ELSE (4 * QScale) \div 10

assessRecommendationQuality(rec) ==
  LET sum == checkCompleteness(rec) + checkClarity(rec) + checkFeasibility(rec)
             + checkBestPractices(rec) + checkDocumentation(rec) + checkTestability(rec)
      averageScore == sum \div 6
  IN [ passed |-> Ge(averageScore, (8 * QScale) \div 10), score |-> averageScore ]

checkResourceRequirements(rec) == [passed |-> TRUE]
checkTimelineRealistic(rec) == [passed |-> Truthy(rec.timeline)]
checkDependenciesAvailable(rec) == [passed |-> TRUE]
checkSkillRequirements(rec) == [passed |-> TRUE]
checkToolAvailability(rec) == [passed |-> TRUE]

checkImplementationViability(rec) ==
  LET viabilityChecks ==
        << checkResourceRequirements(rec), checkTimelineRealistic(rec),
           checkDependenciesAvailable(rec), checkSkillRequirements(rec),
           checkToolAvailability(rec) >>
      passedChecks == Cardinality({i \in 1..Len(viabilityChecks) : viabilityChecks[i].passed})
      viabilityScore == (QScale * passedChecks) \div Len(viabilityChecks)
  IN [ passed |-> Ge(viabilityScore, (8 * QScale) \div 10), score |-> viabilityScore,
       checks |-> viabilityChecks ]

\* QualityAssurance calls the five assess...Risks helpers, categorizeRiskLevel,
\* the four consistency sub-checks and the six security sub-checks, but no file
\* under src/ defines them.  What they return for a recommendation is the
\* record h: the average of the five risk scores (a fraction of QScale), the
\* risk level, and the numbers of consistent and of secure sub-checks.
assessRiskCategories(rec, h) == h.totalRiskScore
categorizeRiskLevel(rec, h) == h.riskLevel
consistentChecks(rec, t, h) == h.consistent
secureChecks(rec, h) == h.secure

ConsistencyChecks == 4
SecurityChecks == 6

assessRisks(rec, h) ==
  LET totalRiskScore == assessRiskCategories(rec, h)
      riskLevel == categorizeRiskLevel(rec, h)
  IN [ passed |-> riskLevel # "high", score |-> QScale - totalRiskScore,
       riskLevel |-> riskLevel ]

checkConsistency(rec, t, h) ==
  LET consistencyScore == (QScale * consistentChecks(rec, t, h)) \div ConsistencyChecks
  IN [ passed |-> Ge(consistencyScore, (9 * QScale) \div 10), score |-> consistencyScore ]

checkSecurityImplications(rec, h) ==
  LET securityScore == (QScale * secureChecks(rec, h)) \div SecurityChecks
  IN [ passed |-> Ge(securityScore, (95 * QScale) \div 100), score |-> securityScore ]

CheckNames ==
  << "expertiseAlignment", "recommendationQuality", "implementationViability",
     "riskAssessment", "consistencyCheck", "securityCheck" >>

\* the weights 0.2, 0.25, 0.2, 0.15, 0.1, 0.1, in twentieths
qualityWeights ==
  [ expertiseAlignment |-> 4, recommendationQuality |-> 5,
    implementationViability |-> 4, riskAssessment |-> 3,
    consistencyCheck |-> 2, securityCheck |-> 2 ]

\* sum of weights, in twentieths
WeightSum == 4 + 5 + 4 + 3 + 2 + 2

\* the plain sum of the six scores, the weights left out
calculateQualityScoreUnweighted(checks) ==
  IF \E k \in Range(CheckNames) : checks[k].score = NaN THEN NaN
  ELSE LET RECURSIVE Sum(_)
           Sum(i) == IF i = 0 THEN 0
                     ELSE Sum(i - 1) + checks[CheckNames[i]].score
       IN Sum(Len(CheckNames))

\* the weighted score, a fraction of WeightSum * QScale; NaN when a score is
calculateQualityScore(checks) ==
  IF \E k \in Range(CheckNames) : checks[k].score = NaN THEN NaN
  ELSE LET RECURSIVE Sum(_)
           Sum(i) == IF i = 0 THEN 0
                     ELSE Sum(i - 1) + qualityWeights[CheckNames[i]] * checks[CheckNames[i]].score
       IN Sum(Len(CheckNames))

\* the weighted average alone, without the individual bars
allChecksPassedByAverage(checks) ==
  Ge(calculateQualityScore(checks), (8 * WeightSum * QScale) \div 10)

allChecksPassed(checks) == \A k \in Range(CheckNames) : checks[k].passed

\* an escalation asked for by the failure of any check
needsEscalationOnAnyFailure(checks) ==
  ~allChecksPassed(checks)
  \/ Lt(calculateQualityScore(checks), (6 * WeightSum * QScale) \div 10)

needsEscalation(checks) ==
  LET hasCriticalFailure == ~checks.securityCheck.passed \/ ~checks.riskAssessment.passed
      scoreTooLow == Lt(calculateQualityScore(checks), (6 * WeightSum * QScale) \div 10)
  IN hasCriticalFailure \/ scoreTooLow

suggestImprovements(checks) ==
  SelectSeq(CheckNames, LAMBDA k : ~checks[k].passed)

\* qualityGrade and timestamp are left out of the result: nothing reads them,
\* and the letter grade of a floating-point score on a grade boundary is not
\* the grade of the exact one.
validateSpecialistRecommendation(specialist, rec, t, h) ==
  LET checks ==
        [ expertiseAlignment |-> checkExpertiseAlignment(specialist, t),
          recommendationQuality |-> assessRecommendationQuality(rec),
          implementationViability |-> checkImplementationViability(rec),
          riskAssessment |-> assessRisks(rec, h),
          consistencyCheck |-> checkConsistency(rec, t, h),
          securityCheck |-> checkSecurityImplications(rec, h) ]
      overallScore == calculateQualityScore(checks)
  IN [ passed |-> allChecksPassed(checks),
       score |-> overallScore,
       checks |-> checks,
       improvements |-> suggestImprovements(checks),
       escalationNeeded |-> needsEscalation(checks) ]

------------------------------------------------------------------------------
(* ContextManager: the specialist cache *)

\* the printable ASCII characters: codes 32 (space) to 95, and 97 to 126
AsciiLow == " !\"#$%&'()*+,-./0123456789:;<=>?@ABCDEFGHIJKLMNOPQRSTUVWXYZ[\\]^_"
AsciiHigh == "abcdefghijklmnopqrstuvwxyz{|}~"

\* String.prototype.charCodeAt, of a one-character string
charCodeAt ==
  [c \in {SubSeq(AsciiLow \o AsciiHigh, i, i) : i \in 1..Len(AsciiLow \o AsciiHigh)} |->
     IF \E i \in 1..Len(AsciiLow) : SubSeq(AsciiLow, i, i) = c
       THEN 31 + (CHOOSE i \in 1..Len(AsciiLow) : SubSeq(AsciiLow, i, i) = c)
       ELSE 96 + (CHOOSE i \in 1..Len(AsciiHigh) : SubSeq(AsciiHigh, i, i) = c)]

\* the order of the default Array.prototype.sort: by UTF-16 code units
RECURSIVE StrLess(_, _)
StrLess(a, b) ==
  IF Len(b) = 0 THEN FALSE
  ELSE IF Len(a) = 0 THEN TRUE
  ELSE LET x == charCodeAt[SubSeq(a, 1, 1)]
           y == charCodeAt[SubSeq(b, 1, 1)]
       IN IF x # y THEN x < y
          ELSE StrLess(SubSeq(a, 2, Len(a)), SubSeq(b, 2, Len(b)))

RECURSIVE Insert(_, _)
Insert(sorted, x) ==
  IF Len(sorted) = 0 THEN <<x>>
  ELSE IF StrLess(x, sorted[1]) THEN <<x>> \o sorted
  ELSE <<sorted[1]>> \o Insert(Tail(sorted), x)

\* Array.prototype.sort() of an array of strings
RECURSIVE Sort(_)
Sort(a) == IF Len(a) = 0 THEN <<>> ELSE Insert(Sort(SubSeq(a, 1, Len(a) - 1)), a[Len(a)])

\* array?.sort(): the array is sorted in place, an absent array stays absent
SortOpt(o) == IF IsSome(o) THEN Some(Sort(Val(o))) ELSE None

\* the task object after generateTaskFingerprint has sorted its arrays in place
SortedTask(t) ==
  [t EXCEPT !.technologies = SortOpt(t.technologies), !.patterns = SortOpt(t.patterns)]

\* Math.floor(task.complexity / 2) * 2, NaN for an absent complexity
ComplexityBucket(t) ==
  IF IsSome(t.complexity) THEN Some((Val(t.complexity) \div 2) * 2) ELSE None

JsonString(str) == "\"" \o str \o "\""
JsonArray(a) == "[" \o Join([i \in 1..Len(a) |-> JsonString(a[i])], ",") \o "]"
\* a number; NaN is written null
JsonNumber(o) == IF IsSome(o) THEN ToString(Val(o)) ELSE "null"

\* JSON.stringify({domain, technologies, complexity, patterns}): undefined
\* properties are left out
stringifyKey(key) ==
  LET parts ==
        (IF IsSome(key.domain) THEN <<"\"domain\":" \o JsonString(Val(key.domain))>> ELSE <<>>)
        \o (IF IsSome(key.technologies)
              THEN <<"\"technologies\":" \o JsonArray(Val(key.technologies))>> ELSE <<>>)
        \o <<"\"complexity\":" \o JsonNumber(key.complexity)>>
        \o (IF IsSome(key.patterns)
              THEN <<"\"patterns\":" \o JsonArray(Val(key.patterns))>> ELSE <<>>)
  IN "{" \o Join(parts, ",") \o "}"

\* A 32-bit integer is a pair of 16-bit halves <<high, low>>.
Half == 65536

\* hash = ((hash << 5) - hash) + char, kept to 32 bits
HashStep(h, char) ==
  LET low == h[2] * 31 + char
      high == h[1] * 31 + (low \div Half)
  IN <<high % Half, low % Half>>

\* the loop over the characters first..last of str, from the hash h; the
\* first half is evaluated before the second is entered
RECURSIVE HashLoop(_, _, _, _)
HashLoop(str, first, last, h) ==
  IF first > last THEN h
  ELSE IF first = last THEN HashStep(h, charCodeAt[SubSeq(str, first, first)])
  ELSE LET mid == (first + last) \div 2
           left == HashLoop(str, first, mid, h)
       IN IF left[1] >= 0 THEN HashLoop(str, mid + 1, last, left) ELSE left

\* Math.abs of the signed 32-bit integer h (the result may be 2^31)
Abs32(h) ==
  IF h[1] < Half \div 2 THEN h
  ELSE IF h[2] = 0 THEN <<(Half - h[1]) % Half, 0>>
  ELSE <<Half - 1 - h[1], Half - h[2]>>

Digits36 == "0123456789abcdefghijklmnopqrstuvwxyz"

\* Number.prototype.toString(36) of a non-negative integer
RECURSIVE ToString36(_)
ToString36(h) ==
  LET r1 == h[1] % 36
      t == r1 * Half + h[2]
      q == <<h[1] \div 36, t \div 36>>
      d == SubSeq(Digits36, (t % 36) + 1, (t % 36) + 1)
  IN IF q = <<0, 0>> THEN d ELSE ToString36(q) \o d

hashString(str) == ToString36(Abs32(HashLoop(str, 1, Len(str), <<0, 0>>)))

hashObject(key) == hashString(stringifyKey(key))

\* the fingerprint without the in-place sort
generateTaskFingerprintUnsorted(t) ==
  hashObject([ domain |-> t.domain, technologies |-> t.technologies,
               complexity |-> ComplexityBucket(t), patterns |-> t.patterns ])

generateTaskFingerprint(t) ==
  hashObject([ domain |-> t.domain, technologies |-> SortOpt(t.technologies),
               complexity |-> ComplexityBucket(t), patterns |-> SortOpt(t.patterns) ])

\* `${specialist}_${taskFingerprint}`; specialist is the text the template
\* literal gives ("null" for the null specialist of a DIRECT routing)
generateCacheKey(t, specialist) ==
  specialist \o "_" \o generateTaskFingerprint(t)

\* parseTimeString('24h'), the default cacheExpiration, in milliseconds
baseExpiration == 24 * 60 * 60 * 1000

\* Times are whole milliseconds since the process started; toISOString and
\* new Date(string) keep whole milliseconds.
calculateExpiration(t, at) ==
  LET complexity == IF IsSome(t.complexity) /\ Val(t.complexity) # 0
                      THEN Val(t.complexity) ELSE 5
  IN at + (baseExpiration * Min(complexity, 10)) \div 5

\* expired as soon as the expiration time is reached
isCacheExpiredInclusive(entry, at) == at >= entry.expirationTime

isCacheExpired(entry, at) == at > entry.expirationTime

\* SpecialistCacheStorage: a Map from cache key to entry
cacheStore(c, entry) ==
  [k \in DOMAIN c \cup {entry.cacheKey} |-> IF k = entry.cacheKey THEN entry ELSE c[k]]
cacheGet(c, key) == IF key \in DOMAIN c THEN Some(c[key]) ELSE None
cacheRemove(c, key) == [k \in DOMAIN c \ {key} |-> c[k]]

\* a quality score of 1.0, as calculateQualityScore scales it
ScoreOne == WeightSum * QScale

\* averageQualityScore is kept as qualityScoreSum / totalConsultations: the
\* running average of updateAverage is the mean of the scores
initializeSpecialistMetrics(at) ==
  [ totalConsultations |-> 0, successfulConsultations |-> 0, qualityScoreSum |-> 0,
    lastConsultation |-> None, firstConsultation |-> at ]

\* updateSpecialistMetrics after getSpecialistMetrics has answered: the changes
\* made to the metrics object
countConsultation(metrics, consultation, at) ==
  LET successful == IsSome(consultation.outcome) /\ Val(consultation.outcome).successful
      given == IF IsSome(consultation.quality) THEN Val(consultation.quality).score ELSE 0
      score == IF given = NaN \/ given = 0 THEN ScoreOne \div 2 ELSE given
  IN [ metrics EXCEPT
         !.totalConsultations = @ + 1,
         !.successfulConsultations = IF successful THEN @ + 1 ELSE @,
         !.qualityScoreSum = @ + score,
         !.lastConsultation = Some(at) ]

updateSpecialistMetrics(sm, consultation, at) ==
  LET sp == consultation.specialist
      metrics == IF sp \in DOMAIN sm THEN sm[sp] ELSE initializeSpecialistMetrics(at)
      updated == countConsultation(metrics, consultation, at)
  IN [k \in DOMAIN sm \cup {sp} |-> IF k = sp THEN updated ELSE sm[k]]

\* the entry cacheSpecialistConsultation builds, cacheKey being
\* generateCacheKey(consultation); its task is the consultation's task object,
\* which generateCacheKey has sorted
cacheEntryOf(consultation, cacheKey, at) ==
  [ specialist |-> consultation.specialist,
    task |-> SortedTask(consultation.task),
    recommendation |-> consultation.recommendation,
    outcome |-> consultation.outcome,
    quality |-> consultation.quality,
    cacheKey |-> cacheKey,
    expirationTime |-> calculateExpiration(consultation.task, at),
    timestamp |-> at ]

\* retrieveSpecialistCache, cacheKey being generateCacheKey({task, specialist}):
\* what it returns, and the cache and the analytics events after it
retrieveSpecialistCache(c, ev, cacheKey, at) ==
  LET cachedEntry == cacheGet(c, cacheKey)
  IN IF ~IsSome(cachedEntry)
       THEN [returned |-> None, cache |-> c, events |-> ev]
     ELSE IF isCacheExpired(Val(cachedEntry), at)
       THEN [returned |-> None, cache |-> cacheRemove(c, cacheKey), events |-> ev]
     ELSE [ returned |-> cachedEntry, cache |-> c,
            events |-> Append(ev, [type |-> "cache_hit", cacheKey |-> cacheKey,
                                   timestamp |-> at]) ]

------------------------------------------------------------------------------
(* SpecialistRegistry *)

\* SpecialistRegistry.getAllSpecialists: name, domain, technologies and
\* estimatedTime of each specialist
allSpecialists ==
  {
    [ id |-> "architecture-generalist", name |-> "Architecture Generalist",
      domain |-> "System design, scalability, patterns",
      technologies |-> <<"microservices", "design-patterns", "scalability", "system-design">>,
      estimatedTime |-> "2-4 hours" ],
    [ id |-> "security-generalist", name |-> "Security Generalist",
      domain |-> "Authentication, authorization, data protection",
      technologies |-> <<"oauth", "jwt", "encryption", "api-security">>,
      estimatedTime |-> "2-4 hours" ],
    [ id |-> "performance-generalist", name |-> "Performance Generalist",
      domain |-> "Optimization, caching, scaling, monitoring",
      technologies |-> <<"caching", "monitoring", "profiling", "optimization">>,
      estimatedTime |-> "2-4 hours" ],
    [ id |-> "data-generalist", name |-> "Data Generalist",
      domain |-> "Database design, modeling, analytics",
      technologies |-> <<"sql", "nosql", "data-modeling", "analytics">>,
      estimatedTime |-> "2-4 hours" ],
    [ id |-> "integration-generalist", name |-> "Integration Generalist",
      domain |-> "APIs, third-party services, microservices",
      technologies |-> <<"rest", "graphql", "webhooks", "microservices">>,
      estimatedTime |-> "2-4 hours" ],
    [ id |-> "frontend-generalist", name |-> "Frontend Generalist",
      domain |-> "UI/UX, responsive design, accessibility",
      technologies |-> <<"react", "vue", "angular", "css", "javascript">>,
      estimatedTime |-> "2-4 hours" ],
    [ id |-> "database-specialist", name |-> "Database Specialist",
      domain |-> "PostgreSQL, Redis, performance tuning",
      technologies |-> <<"postgresql", "redis", "mongodb", "query-optimization">>,
      estimatedTime |-> "8-16 hours" ],
    [ id |-> "api-design-specialist", name |-> "API Design Specialist",
      domain |-> "REST, GraphQL, versioning",
      technologies |-> <<"rest", "graphql", "openapi", "api-versioning">>,
      estimatedTime |-> "8-16 hours" ],
    [ id |-> "auth-systems-specialist", name |-> "Auth Systems Specialist",
      domain |-> "OAuth, JWT, SSO, MFA",
      technologies |-> <<"oauth2", "saml", "jwt", "mfa", "sso">>,
      estimatedTime |-> "8-16 hours" ],
    [ id |-> "performance-optimization-specialist", name |-> "Performance Optimization Specialist",
      domain |-> "Profiling, memory/CPU optimization",
      technologies |-> <<"profiling", "memory-optimization", "monitoring", "apm">>,
      estimatedTime |-> "8-16 hours" ],
    [ id |-> "ml-integration-specialist", name |-> "ML Integration Specialist",
      domain |-> "ML APIs, model serving, AI integration",
      technologies |-> <<"tensorflow", "pytorch", "ml-apis", "model-serving">>,
      estimatedTime |-> "8-16 hours" ],
    [ id |-> "testing-strategy-specialist", name |-> "Testing Strategy Specialist",
      domain |-> "Test automation, CI/CD, frameworks",
      technologies |-> <<"jest", "cypress", "ci-cd", "test-automation">>,
      estimatedTime |-> "8-16 hours" ],
    [ id |-> "system-architect", name |-> "System Architect",
      domain |-> "Enterprise architecture, cross-domain coordination",
      technologies |-> <<"enterprise-architecture", "system-design", "governance">>,
      estimatedTime |-> "24-48 hours" ],
    [ id |-> "integration-architect", name |-> "Integration Architect",
      domain |-> "Service mesh, enterprise integration patterns",
      technologies |-> <<"service-mesh", "event-driven", "distributed-systems">>,
      estimatedTime |-> "24-48 hours" ],
    [ id |-> "scale-architect", name |-> "Scale Architect",
      domain |-> "Horizontal scaling, distributed systems",
      technologies |-> <<"horizontal-scaling", "load-balancing", "fault-tolerance">>,
      estimatedTime |-> "24-48 hours" ],
    [ id |-> "security-architect", name |-> "Security Architect",
      domain |-> "Security governance, compliance, threat modeling",
      technologies |-> <<"enterprise-security", "compliance", "threat-modeling">>,
      estimatedTime |-> "24-48 hours" ],
    [ id |-> "data-architect", name |-> "Data Architect",
      domain |-> "Data lakes, warehouses, governance",
      technologies |-> <<"data-lakes", "data-warehouses", "data-governance">>,
      estimatedTime |-> "24-48 hours" ],
    [ id |-> "governance-architect", name |-> "Governance Architect",
      domain |-> "Compliance, policy enforcement, governance",
      technologies |-> <<"governance", "compliance", "policy-enforcement">>,
      estimatedTime |-> "24-48 hours" ] }

\* SpecialistRegistry.getSpecialistCapabilities: allSpecialists[specialistId],
\* undefined for an id the registry does not list
registryCapabilities(specialistId) ==
  IF \E s \in allSpecialists : s.id = specialistId
    THEN Some(CHOOSE s \in allSpecialists : s.id = specialistId) ELSE None

------------------------------------------------------------------------------
(* ContextManager: the pattern library and the project context *)

\* Patterns are kept in insertion order (a Map's iteration order).  A pattern
\* stored by storeSuccessPattern has a task; one stored for an architectural
\* decision has a decision and no task.  successRate is kept as the fraction
\* <<numerator, denominator>> in lowest terms; the averages of successMetrics
\* are kept as sums over count.
NoPattern ==
  [ id |-> "", type |-> None, task |-> None, specialist |-> None,
    decision |-> None, qualityScore |-> None, contextVersion |-> None,
    timestamp |-> 0, usageCount |-> None, successRate |-> None,
    relevanceScore |-> None, successMetrics |-> None, lastUsed |-> None ]

generatePatternId(n) == "pattern_" \o ToString(n)

\* the copy normalizeTask returns
normalizeTask(t) ==
  [ domain |-> t.domain,
    technologies |-> IF IsSome(t.technologies) THEN Sort(Val(t.technologies)) ELSE <<>>,
    complexity |-> ((IF IsSome(t.complexity) /\ Val(t.complexity) # 0
                       THEN Val(t.complexity) ELSE 5) \div 2) * 2,
    patterns |-> IF IsSome(t.patterns) THEN Sort(Val(t.patterns)) ELSE <<>>,
    requirements |-> IF IsSome(t.requirements) THEN Sort(Val(t.requirements)) ELSE <<>> ]

\* the task object after normalizeTask has sorted its arrays in place
NormalizedInPlace(t) ==
  [SortedTask(t) EXCEPT !.requirements = SortOpt(t.requirements)]

\* the relevance PatternLibraryStorage.search gives a pattern that has a task
relevanceOf(pattern, t) ==
  LET pt == Val(pattern.task)
      techMatches == IF IsSome(t.technologies)
                       THEN Cardinality({i \in DOMAIN Val(t.technologies) :
                              Includes(pt.technologies, Val(t.technologies)[i])})
                       ELSE 0
      pc == IF pt.complexity # 0 THEN pt.complexity ELSE 5
      tc == IF IsSome(t.complexity) /\ Val(t.complexity) # 0 THEN Val(t.complexity) ELSE 5
      complexityDiff == IF pc >= tc THEN pc - tc ELSE tc - pc
  IN (IF pt.domain = t.domain THEN 10 ELSE 0) + techMatches * 2
     + Max(0, 5 - complexityDiff)

\* patterns ordered by falling relevance, equal ones in their given order
RECURSIVE InsertByRelevance(_, _)
InsertByRelevance(p, s) ==
  IF s = <<>> THEN <<p>>
  ELSE IF Val(Head(s).relevanceScore) > Val(p.relevanceScore)
    THEN <<Head(s)>> \o InsertByRelevance(p, Tail(s))
  ELSE <<p>> \o s

RECURSIVE SortByRelevance(_)
SortByRelevance(s) ==
  IF s = <<>> THEN <<>>
  ELSE InsertByRelevance(s[1], SortByRelevance(Tail(s)))

\* getRelevantPatterns: search reads pattern.task.domain of every pattern in
\* turn and writes the pattern's relevanceScore; it throws a TypeError at the
\* first pattern without a task.  similarityThreshold 0.7 * 15 is 10.5.
getRelevantPatterns(lib, t) ==
  LET bad == {i \in DOMAIN lib : ~IsSome(lib[i].task)}
      stop == IF bad = {} THEN Len(lib) + 1 ELSE CHOOSE i \in bad : \A j \in bad : i <= j
      scored == [i \in DOMAIN lib |->
                   IF i < stop
                     THEN [lib[i] EXCEPT !.relevanceScore = Some(relevanceOf(lib[i], t))]
                     ELSE lib[i]]
      found == SelectSeq(scored, LAMBDA p : IsSome(p.task)
                                            /\ 10 * Val(p.relevanceScore) >= 105)
  IN [ thrown |-> bad # {}, lib |-> scored,
       patterns |-> IF bad # {} THEN <<>> ELSE SortByRelevance(found) ]

TypeErrorMessage == "Cannot read properties of undefined (reading 'domain')"

\* storeSuccessPattern: it returns at once for an outcome that is not
\* successful, and stores the pattern otherwise
storeSuccessPattern(lib, consultation, outcome, contextVersion, n, at) ==
  IF ~outcome.successful THEN lib ELSE
  Append(lib,
    [ NoPattern EXCEPT
        !.id = generatePatternId(n),
        !.task = Some(normalizeTask(consultation.task)),
        !.specialist = Some(consultation.specialist),
        !.qualityScore = Some(outcome.qualityScore),
        !.contextVersion = contextVersion,
        !.timestamp = at,
        !.successMetrics = Some([ qualityScoreSum |-> outcome.qualityScore,
                                  userSatisfactionSum |-> outcome.userSatisfaction,
                                  count |-> 1 ]),
        !.usageCount = Some(1),
        !.successRate = Some(<<1, 1>>) ])

RECURSIVE Gcd(_, _)
Gcd(a, b) == IF b = 0 THEN a ELSE Gcd(b, a % b)

\* the fraction n/d in lowest terms
Fraction(n, d) == <<n \div Gcd(n, d), d \div Gcd(n, d)>>

\* a copy of the stored object, detached from the library
patternGetCopy(lib, patternId) ==
  IF \E i \in DOMAIN lib : lib[i].id = patternId
    THEN Some([copy |-> lib[CHOOSE i \in DOMAIN lib : lib[i].id = patternId]])
    ELSE None

\* PatternLibraryStorage.get: the stored object itself, held by its place in
\* the library; undefined for an id the library does not hold
patternGet(lib, patternId) ==
  IF \E i \in DOMAIN lib : lib[i].id = patternId
    THEN Some([ref |-> CHOOSE i \in DOMAIN lib : lib[i].id = patternId])
    ELSE None

\* the object a held value denotes: the stored object, or a detached copy
Held(lib, h) == IF "ref" \in DOMAIN h THEN lib[h.ref] ELSE h.copy

\* PatternLibraryStorage.update: patterns.set(pattern.id, pattern)
patternUpdate(lib, pattern) ==
  IF \E i \in DOMAIN lib : lib[i].id = pattern.id
    THEN [i \in DOMAIN lib |-> IF lib[i].id = pattern.id THEN pattern ELSE lib[i]]
    ELSE Append(lib, pattern)

\* updateSuccessMetrics: count is currentMetrics.count || 1, and each average
\* moves to ((avg * (newCount - 1)) + value) / newCount, i.e. its sum grows by
\* the value.  implementationTime, which no outcome carries, is left out.
updateSuccessMetrics(currentMetrics, outcome) ==
  [ qualityScoreSum |-> currentMetrics.qualityScoreSum + outcome.qualityScore,
    userSatisfactionSum |-> currentMetrics.userSatisfactionSum + outcome.userSatisfaction,
    count |-> currentMetrics.count + 1 ]

\* an average that weighs the last outcome as much as all earlier ones
nextSuccessRateForgetful(rate, usageCount, successful) ==
  Fraction(rate[1] + (IF successful THEN rate[2] ELSE 0), 2 * rate[2])

\* the running average the code computes from the rate and the new count:
\* (successRate * (usageCount - 1) + (successful ? 1 : 0)) / usageCount
nextSuccessRate(rate, usageCount, successful) ==
  Fraction(rate[1] * (usageCount - 1) + (IF successful THEN rate[2] ELSE 0),
           rate[2] * usageCount)

\* updatePatternUsage after get has returned the pattern: the object is
\* changed in place and handed to update.  A pattern without usageCount (an
\* architectural decision) gets NaN for both numbers.
usePattern(pattern, outcome, at) ==
  IF ~IsSome(pattern.usageCount) \/ Val(pattern.usageCount) = NaN
    THEN [ pattern EXCEPT !.usageCount = Some(NaN), !.successRate = Some(<<NaN, 1>>),
                          !.lastUsed = Some(at) ]
    ELSE [ pattern EXCEPT
             !.usageCount = Some(Val(@) + 1),
             !.successRate = Some(nextSuccessRate(Val(@), Val(pattern.usageCount) + 1,
                                                  outcome.successful)),
             !.lastUsed = Some(at),
             !.successMetrics =
               IF outcome.successful /\ IsSome(@)
                 THEN Some(updateSuccessMetrics(Val(@), outcome)) ELSE @ ]

\* updatePatternUsage after get has returned the pattern: the library after
\* the pattern has been changed in place and handed to update.  For a
\* successful outcome and a pattern without successMetrics (an architectural
\* decision) updateSuccessMetrics reads currentMetrics.count of undefined: the
\* call throws a TypeError after the counts have been changed and before update
\* is called.
updatePatternUsage(lib, held, outcome, at) ==
  IF outcome.successful /\ ~IsSome(Held(lib, held).successMetrics)
    THEN [ thrown |-> TRUE,
           lib |-> IF "ref" \in DOMAIN held
                     THEN [lib EXCEPT ![held.ref] = usePattern(lib[held.ref], outcome, at)]
                     ELSE lib ]
    ELSE [ thrown |-> FALSE,
           lib |-> patternUpdate(
                     IF "ref" \in DOMAIN held
                       THEN [lib EXCEPT ![held.ref] = usePattern(lib[held.ref], outcome, at)]
                       ELSE lib,
                     usePattern(Held(lib, held), outcome, at)) ]

\* identifyNewPatterns: one pattern per architectural decision
RECURSIVE identifyNewPatterns(_, _, _)
identifyNewPatterns(decisions, n, at) ==
  IF decisions = <<>> THEN <<>>
  ELSE << [ NoPattern EXCEPT !.id = generatePatternId(n),
                             !.type = Some("architectural-decision"),
                             !.decision = Some(Head(decisions)),
                             !.timestamp = at ] >>
       \o identifyNewPatterns(Tail(decisions), n + 1, at)

\* ProjectContextStorage: the contexts by version, the last one being current
getProjectContextVersion(ctxs) ==
  IF ctxs = <<>> THEN None ELSE Some(ctxs[Len(ctxs)].version)

getNextContextVersion(ctxs) ==
  (IF ctxs = <<>> THEN 0 ELSE ctxs[Len(ctxs)].version) + 1

\* ProjectContextStorage.getCurrent: contexts.get(currentVersion)
contextGetCurrent(ctxs, currentVersion) ==
  IF \E i \in DOMAIN ctxs : ctxs[i].version = currentVersion
    THEN Some(ctxs[CHOOSE i \in DOMAIN ctxs : ctxs[i].version = currentVersion])
    ELSE None

\* getNextContextVersion after getCurrent has answered: (current?.version || 0) + 1
versionAfter(current) == (IF IsSome(current) THEN Val(current).version ELSE 0) + 1

\* ProjectContextStorage.update: contexts.set(context.version, context), which
\* replaces the snapshot the Map holds under that version
contextUpdate(ctxs, context) ==
  IF \E i \in DOMAIN ctxs : ctxs[i].version = context.version
    THEN [i \in DOMAIN ctxs |-> IF ctxs[i].version = context.version THEN context
                                ELSE ctxs[i]]
    ELSE Append(ctxs, context)

------------------------------------------------------------------------------
(* SubAgentOrchestrator: recommendations, outcomes and metrics *)

\* confidence is held in hundredths
executeDirectImplementationUnsure(t, rt) ==
  With(NoRecommendation,
    [ approach |-> Some("direct-implementation"),
      implementation |-> Some("Direct task execution"),
      confidence |-> Some(90) ])

\* task.implementation is a field no task of this model sets; estimatedEffort
\* (routing.estimatedTime || 30) is not carried, as estimatedTime is not
executeDirectImplementation(t, rt) ==
  With(NoRecommendation,
    [ approach |-> Some("direct-implementation"),
      implementation |-> Some("Direct task execution"),
      confidence |-> Some(95) ])

generateImplementationSteps(specialistInfo) ==
  LET domain == IF IsSome(specialistInfo) THEN Val(specialistInfo).domain ELSE ""
  IN << "Analyze requirements and constraints", "Design solution architecture",
        "Implement core functionality" >>
     \o (IF StrIncludes(domain, "security") THEN <<"Implement security measures">> ELSE <<>>)
     \o << "Add error handling and validation", "Create tests and documentation" >>
     \o (IF StrIncludes(domain, "performance") THEN <<"Optimize performance">> ELSE <<>>)
     \o << "Deploy and monitor" >>

\* generateConsiderations is called here but defined in no file under src/;
\* the plan is taken with no considerations
generateConsiderations(t, specialistInfo) == <<>>

\* the plan as the text of its values: overview, steps, the ids of the three
\* most relevant patterns, technologies and considerations
generateImplementationPlan(t, specialistInfo, patterns) ==
  LET relevantPatterns == SubSeq(patterns, 1, Min(3, Len(patterns)))
      ids == [i \in DOMAIN relevantPatterns |-> relevantPatterns[i].id]
      technologies == IF IsSome(specialistInfo) THEN Val(specialistInfo).technologies
                      ELSE <<>>
  IN Join(<< "Implementation plan for "
               \o (IF Truthy(t.domain) THEN Val(t.domain) ELSE "general") \o " task" >>
          \o generateImplementationSteps(specialistInfo) \o ids \o technologies
          \o generateConsiderations(t, specialistInfo), ", ")

generateRationale(specialistInfo) ==
  "This approach leverages "
  \o (IF IsSome(specialistInfo) THEN Val(specialistInfo).name ELSE "specialist")
  \o " expertise in "
  \o (IF IsSome(specialistInfo) THEN Val(specialistInfo).domain ELSE "the relevant domain")
  \o " to address the specific requirements of the task."

identifyRisks(t) ==
  Join(<< "technical, medium, Thorough testing", "timeline, low, Buffer time allocation" >>
       \o (IF IsSome(t.complexity) /\ Val(t.complexity) > 7
             THEN <<"complexity, high, Break down into smaller components">> ELSE <<>>),
       "; ")

estimateTimeline(t, specialistInfo) ==
  LET baseTime == IF IsSome(specialistInfo) THEN Val(specialistInfo).estimatedTime
                  ELSE "4-8 hours"
      complexity == IF IsSome(t.complexity) /\ Val(t.complexity) # 0
                      THEN Val(t.complexity) ELSE 5
  IN IF complexity > 7 THEN baseTime \o " (extended due to complexity)"
     ELSE IF complexity < 3 THEN baseTime \o " (possibly shorter due to simplicity)"
     ELSE baseTime

identifyResources(t, specialistInfo) ==
  Join(<< IF IsSome(specialistInfo) THEN Val(specialistInfo).name ELSE "Specialist" >>
       \o (IF IsSome(specialistInfo) THEN Val(specialistInfo).technologies ELSE <<>>)
       \o << estimateTimeline(t, specialistInfo) >>, ", ")

defineQualityMetrics ==
  Join(<< "Code quality score > 8/10", "Test coverage > 80%",
          "Performance benchmarks met", "Security scan passes",
          "Documentation completeness" >>, ", ")

defineTestingStrategy ==
  Join(<< "Component-level testing", "API integration testing",
          "End-to-end workflow testing", "Load and stress testing",
          "Security vulnerability testing" >>, ", ")

\* SubAgentOrchestrator.calculateConfidence, in hundredths
calculateRecommendationConfidence(t, specialistInfo, patterns) ==
  LET aligned == IsSome(specialistInfo) /\ Truthy(t.domain)
                 /\ StrIncludes(Val(specialistInfo).domain, Val(t.domain))
      confidence == 70 + (IF aligned THEN 10 ELSE 0) + Min(Len(patterns) * 5, 15)
                    - (IF IsSome(t.complexity) /\ Val(t.complexity) > 8 THEN 10 ELSE 0)
  IN Min(Max(confidence, 10), 95)

\* each field of the recommendation is held as the text of its values
generateSpecialistRecommendation(t, specialist, specialistInfo, patterns) ==
  With(NoRecommendation,
    [ approach |-> Some(specialist \o "-consultation"),
      implementation |-> Some(generateImplementationPlan(t, specialistInfo, patterns)),
      rationale |-> Some(generateRationale(specialistInfo)),
      risks |-> Some(identifyRisks(t)),
      timeline |-> Some(estimateTimeline(t, specialistInfo)),
      resources |-> Some(identifyResources(t, specialistInfo)),
      qualityMetrics |-> Some(defineQualityMetrics),
      testingStrategy |-> Some(defineTestingStrategy),
      confidence |-> Some(calculateRecommendationConfidence(t, specialistInfo, patterns)) ])

\* what processTask, handleQualityFailure and handleTaskFailure return: a
\* field the returned object does not have is None
NoMetadata ==
  [ complexity |-> None, routing |-> None, quality |-> None, executionTime |-> None,
    cacheUsed |-> None, cached |-> None, originalTimestamp |-> None,
    specialist |-> None, cacheAge |-> None ]

NoOutcome ==
  [ taskId |-> None, success |-> FALSE, result |-> None, metadata |-> None,
    error |-> None, failureAnalysis |-> None, executionTime |-> None,
    recoveryAttempted |-> None, consultation |-> None, qualityIssues |-> None,
    thrown |-> None ]

\* in place of an outcome: the call ended by throwing an error with this message
Thrown(message) == [NoOutcome EXCEPT !.thrown = Some(message)]

\* a cached result returned without the mark of the cache
formatCachedResultUnmarked(cachedResult, taskId, at) ==
  [ NoOutcome EXCEPT
      !.taskId = Some(taskId), !.success = TRUE,
      !.result = Some(cachedResult.recommendation),
      !.metadata = Some([ NoMetadata EXCEPT
                            !.originalTimestamp = Some(cachedResult.timestamp),
                            !.specialist = Some(cachedResult.specialist),
                            !.cacheAge = Some(at - cachedResult.timestamp) ]) ]

formatCachedResult(cachedResult, taskId, at) ==
  [ NoOutcome EXCEPT
      !.taskId = Some(taskId), !.success = TRUE,
      !.result = Some(cachedResult.recommendation),
      !.metadata = Some([ NoMetadata EXCEPT
                            !.cached = Some(TRUE),
                            !.originalTimestamp = Some(cachedResult.timestamp),
                            !.specialist = Some(cachedResult.specialist),
                            !.cacheAge = Some(at - cachedResult.timestamp) ]) ]

NoMetrics ==
  [ taskId |-> "", complexity |-> None, tier |-> None, executionTime |-> 0,
    qualityScore |-> None, success |-> FALSE, error |-> None, severity |-> None,
    timestamp |-> 0, userFeedback |-> None, userSatisfaction |-> None ]

MetricsLimit == 1000
MetricsKeep == 500

\* the trim taken before the entry is added
updatePerformanceMetricsTrimsFirst(pm, taskId, metrics, at) ==
  Append(IF Len(pm) + 1 > MetricsLimit
           THEN SubSeq(pm, Len(pm) - MetricsKeep + 1, Len(pm)) ELSE pm,
         [metrics EXCEPT !.taskId = taskId, !.timestamp = at])

\* performanceMetrics is a Map in insertion order; every task id is new
updatePerformanceMetrics(pm, taskId, metrics, at) ==
  LET added == Append(pm, [metrics EXCEPT !.taskId = taskId, !.timestamp = at])
  IN IF Len(added) > MetricsLimit
       THEN SubSeq(added, Len(added) - MetricsKeep + 1, Len(added))
       ELSE added

generateTaskId(n) == "task_" \o ToString(n)

\* the options processTask reads: useCache is options.useCache !== false
NoOptions == [useCache |-> TRUE, tier |-> None, retry |-> FALSE]

\* routing.specialist as a template literal prints it
specialistText(rt) == IF IsSome(rt.specialist) THEN Val(rt.specialist) ELSE "null"

\* the message of the error processFeedback throws for a task id it has no
\* metrics of
NotFoundMessage(taskId) == "Task " \o taskId \o " not found"


------------------------------------------------------------------------------
(* ErrorRecoverySystem: failure detection and learning *)

\* JSON.stringify({error, task}) as the text of its string values.  The keys
\* and the numbers of a task contain none of the words the detectors look for.
stringifyImplementation(error, t) ==
  LET arrays == << t.requirements, t.technologies, t.patterns,
                   Some(t.perfRequirements), Some(t.scalability), Some(t.compliance),
                   Some(t.businessLogic), Some(t.dataRisk), Some(t.systemRisk),
                   Some(t.implementationRisk) >>
      texts == << Some(error), t.description, t.domain, t.scope, t.timelinePressure,
                  IF IsSome(t.escalation) THEN Some(Val(t.escalation).from) ELSE None,
                  IF IsSome(t.escalation) THEN Some(Val(t.escalation).reason) ELSE None >>
      RECURSIVE Flat(_)
      Flat(i) == IF i = 0 THEN <<>>
                 ELSE Flat(i - 1) \o (IF IsSome(arrays[i]) THEN Val(arrays[i]) ELSE <<>>)
      set == SelectSeq(texts, IsSome)
  IN Join([i \in DOMAIN set |-> Val(set[i])] \o Flat(Len(arrays)), ",")

CountMatches(text, words) == Cardinality({w \in words : StrIncludes(text, w)})

\* the patterns are case-insensitive
checkSyntaxErrors(text) ==
  LET errors == CountMatches(ToLowerCase(text),
                  {"syntaxerror", "referenceerror", "typeerror", "unexpected token"})
  IN [ hasErrors |-> errors > 0, hasFailures |-> FALSE,
       severity |-> IF errors > 0 THEN "high" ELSE "none" ]

checkLogicErrors(text) ==
  LET foundIssues == CountMatches(ToLowerCase(text),
                       {"infinite loop", "null pointer", "index out of bounds",
                        "memory leak", "race condition"})
  IN [ hasErrors |-> foundIssues > 0, hasFailures |-> FALSE,
       severity |-> IF foundIssues > 2 THEN "high"
                    ELSE IF foundIssues > 0 THEN "medium" ELSE "none" ]

checkIntegrationFailures(text) ==
  LET foundFailures == CountMatches(ToLowerCase(text),
                         {"connection refused", "timeout", "authentication failed",
                          "api error", "404", "500"})
  IN [ hasErrors |-> FALSE, hasFailures |-> foundFailures > 0,
       severity |-> IF foundFailures > 1 THEN "high"
                    ELSE IF foundFailures > 0 THEN "medium" ELSE "none" ]

\* checkPerformanceIssues, checkSecurityVulnerabilities, categorizeFailures and
\* recommendRecovery are called by detectImplementationFailure but defined in
\* no file under src/.  What they return for a failure is the record h: the
\* severity each of the two detectors reports, and the recovery strategy
\* recommended, if any.
checkPerformanceIssues(text, h) ==
  [hasErrors |-> FALSE, hasFailures |-> FALSE, severity |-> h.performance]
checkSecurityVulnerabilities(text, h) ==
  [hasErrors |-> FALSE, hasFailures |-> FALSE, severity |-> h.security]
categorizeFailures(detectionResults) ==
  SelectSeq(<<"syntax", "logic", "integration", "performance", "security">>,
            LAMBDA k : detectionResults[k].severity # "none")
recommendRecovery(detectionResults, severity, h) == h.strategy

DetectorNames == <<"syntax", "logic", "integration", "performance", "security">>

hasAnyFailures(detectionResults) ==
  \E k \in Range(DetectorNames) :
    detectionResults[k].hasErrors \/ detectionResults[k].hasFailures
    \/ detectionResults[k].severity # "none"

severityScores(severity) ==
  CASE severity = "low" -> 2
    [] severity = "medium" -> 5
    [] severity = "high" -> 8
    [] severity = "critical" -> 10
    [] OTHER -> 0

\* the detectors' scores added up
assessSeveritySummed(detectionResults) ==
  LET RECURSIVE SumScore(_)
      SumScore(i) == IF i = 0 THEN 0
                     ELSE SumScore(i - 1)
                          + severityScores(detectionResults[DetectorNames[i]].severity)
  IN SumScore(Len(DetectorNames))

assessSeverity(detectionResults) ==
  LET RECURSIVE MaxScore(_)
      MaxScore(i) == IF i = 0 THEN 0
                     ELSE Max(MaxScore(i - 1),
                              severityScores(detectionResults[DetectorNames[i]].severity))
  IN MaxScore(Len(DetectorNames))

detectImplementationFailure(error, t, h, at) ==
  LET text == stringifyImplementation(error, t)
      detectionResults ==
        [ syntax |-> checkSyntaxErrors(text),
          logic |-> checkLogicErrors(text),
          integration |-> checkIntegrationFailures(text),
          performance |-> checkPerformanceIssues(text, h),
          security |-> checkSecurityVulnerabilities(text, h) ]
      severity == assessSeverity(detectionResults)
  IN [ hasFailures |-> hasAnyFailures(detectionResults),
       failureTypes |-> categorizeFailures(detectionResults),
       severity |-> severity,
       detectionResults |-> detectionResults,
       recoveryStrategy |-> recommendRecovery(detectionResults, severity, h),
       escalationNeeded |-> severity >= 8,
       timestamp |-> at ]

HistoryLimit == 1000
HistoryKeep == 500

recordLearningEvent(history, eventType, data, at) ==
  LET added == Append(history, [type |-> eventType, data |-> data, timestamp |-> at])
  IN IF Len(added) > HistoryLimit
       THEN SubSeq(added, Len(added) - HistoryKeep + 1, Len(added))
       ELSE added

\* integrateImplementationFailureFeedback: the analyses it calls
\* (analyzeFailureRoot, assessRecoveryEffectiveness, identifyLearningOpportunities,
\* generateSystemUpdates, developPreventionMeasures) and the updates it applies
\* (updateContextRouter, adjustComplexityThresholds, updateErrorPatterns) are
\* defined in no file under src/; the failure and the recovery it was given
\* stand for the feedback loop it records
integrateImplementationFailureFeedback(history, failure, recovery, at) ==
  recordLearningEvent(history, "implementation_failure",
                      [failure |-> failure, recovery |-> recovery], at)

\* ErrorRecoverySystem.detectUserDissatisfaction: the analyses it calls are
\* defined in no file under src/; the feedback and the metrics it was given
\* stand for what it returns
detectUserDissatisfaction(fb, metrics) == [feedback |-> fb, outcome |-> metrics]

\* integrateUserDissatisfactionFeedback: the analyses it calls and the updates
\* it applies are defined in no file under src/; the dissatisfaction and the
\* routing decision it was given stand for the feedback loop it records
integrateUserDissatisfactionFeedback(history, dissatisfaction, routingDecision, at) ==
  recordLearningEvent(history, "user_dissatisfaction",
    [dissatisfaction |-> dissatisfaction, routingDecision |-> routingDecision], at)

\* feedback.satisfaction < 0.6, satisfaction being held in hundredths; the
\* comparison is false for a feedback without satisfaction
Dissatisfied(fb) == IsSome(fb.satisfaction) /\ Val(fb.satisfaction) < 60

\* processFeedback for a task id it has no metrics of: a metrics entry is made
\* for the id instead of the error
processFeedbackCreates(pm, history, taskId, fb, at) ==
  LET known == {i \in DOMAIN pm : pm[i].taskId = taskId}
  IN [ thrown |-> None,
       performanceMetrics |->
         IF known = {}
           THEN Append(pm, [NoMetrics EXCEPT !.taskId = taskId,
                                             !.userFeedback = Some(fb),
                                             !.userSatisfaction = fb.satisfaction])
           ELSE [i \in DOMAIN pm |->
                   IF i \in known
                     THEN [pm[i] EXCEPT !.userFeedback = Some(fb),
                                        !.userSatisfaction = fb.satisfaction]
                     ELSE pm[i]],
       feedbackHistory |->
         IF Dissatisfied(fb)
           THEN integrateUserDissatisfactionFeedback(history,
                  detectUserDissatisfaction(fb, NoMetrics), None, at)
           ELSE history,
       returned |-> Some([ taskId |-> taskId, feedbackProcessed |-> TRUE,
                           systemUpdated |-> Dissatisfied(fb) ]) ]

\* SubAgentOrchestrator.processFeedback: what it throws or returns, and the
\* performance metrics and the feedback history after it.  metrics.routing,
\* the routing decision it hands over, is a field no metrics entry has.
processFeedback(pm, history, taskId, fb, at) ==
  LET known == {i \in DOMAIN pm : pm[i].taskId = taskId}
  IN IF known = {}
       THEN [ thrown |-> Some(NotFoundMessage(taskId)),
              performanceMetrics |-> pm, feedbackHistory |-> history,
              returned |-> None ]
       ELSE [ thrown |-> None,
              performanceMetrics |->
                [i \in DOMAIN pm |->
                   IF i \in known
                     THEN [pm[i] EXCEPT !.userFeedback = Some(fb),
                                        !.userSatisfaction = fb.satisfaction]
                     ELSE pm[i]],
              feedbackHistory |->
                IF Dissatisfied(fb)
                  THEN integrateUserDissatisfactionFeedback(history,
                         detectUserDissatisfaction(fb, pm[CHOOSE i \in known : TRUE]),
                         None, at)
                  ELSE history,
              returned |-> Some([ taskId |-> taskId, feedbackProcessed |-> TRUE,
                                  systemUpdated |-> Dissatisfied(fb) ]) ]

------------------------------------------------------------------------------
(* State groups.  Each specification below drives one group of variables    *)
(* and leaves the others at rest.                                           *)

rvars == <<task, routing, rphase>>
evars == <<etier, efailure, eresult>>
qvars == <<qtask, qrec, qhidden, qresult>>
cvars == <<now, cache, events, specialistMetrics, cop>>
ovars == <<stack, ret, contexts, patternLib, performanceMetrics, feedbackHistory,
           qaHidden, failureHidden, attempts, recoveries, qaCalls, calls,
           submitted, nextTaskId, nextPatternId>>
zvars == <<caching, searching, thresholds>>
yvars == <<completing, updating, detection, zvars>>
xvars == <<feedback, usage, usageLog, inflight, gate, yvars>>
vars == <<rvars, evars, qvars, cvars, ovars, xvars>>

NoFailure ==
  [ primaryCause |-> None, severity |-> None, failureTypes |-> None,
    affectsProduction |-> FALSE, blocksOtherWork |-> FALSE,
    task |-> None, approach |-> None, errorDetails |-> None,
    environment |-> None, timestamp |-> None ]

RouteIdle ==
  /\ task = NeutralTask
  /\ routing = None
  /\ rphase = "off"

EscalateIdle ==
  /\ etier = "DIRECT"
  /\ efailure = NoFailure
  /\ eresult = None

NoHidden == [totalRiskScore |-> 0, riskLevel |-> "low", consistent |-> 0, secure |-> 0]

QAIdle ==
  /\ qtask = NeutralTask
  /\ qrec = NoRecommendation
  /\ qhidden = NoHidden
  /\ qresult = None

NoCall == [name |-> "none"]

\* the ContextManager as its constructor leaves it
CacheIdle ==
  /\ now = 0
  /\ cache = <<>>
  /\ events = <<>>
  /\ specialistMetrics = <<>>
  /\ cop = NoCall

NoFailureHidden == [performance |-> "none", security |-> "none", strategy |-> None]

\* the orchestrator as its constructor leaves it
OrchIdle ==
  /\ stack = <<>>
  /\ ret = None
  /\ contexts = <<>>
  /\ patternLib = <<>>
  /\ performanceMetrics = <<>>
  /\ feedbackHistory = <<>>
  /\ qaHidden = NoHidden
  /\ failureHidden = NoFailureHidden
  /\ attempts = <<>>
  /\ recoveries = 0
  /\ qaCalls = 0
  /\ calls = 0
  /\ submitted = <<>>
  /\ nextTaskId = 1
  /\ nextPatternId = 1

\* no consultation being cached, no pattern search in progress, no thresholds
LaterIdle ==
  /\ caching = <<>>
  /\ searching = <<>>
  /\ thresholds = None

\* no completion and no context update in progress, no detection made
MoreIdle ==
  /\ completing = <<>>
  /\ updating = <<>>
  /\ detection = None
  /\ LaterIdle

\* no feedback given, no pattern usage reported, no overlapping call made
ExtraIdle ==
  /\ MoreIdle
  /\ feedback = <<>>
  /\ usage = <<>>
  /\ usageLog = <<>>
  /\ inflight = <<>>
  /\ gate = None

restOfRoute == <<evars, qvars, cvars, ovars, xvars>>
restOfEscalate == <<rvars, qvars, cvars, ovars, xvars>>
restOfQA == <<rvars, evars, cvars, ovars, xvars>>
restOfCache == <<rvars, evars, qvars, ovars, xvars>>
restOfOrch == <<rvars, evars, qvars, xvars>>
RestOfRouteIdle == EscalateIdle /\ QAIdle /\ CacheIdle /\ OrchIdle /\ ExtraIdle
RestOfEscalateIdle == RouteIdle /\ QAIdle /\ CacheIdle /\ OrchIdle /\ ExtraIdle
RestOfQAIdle == RouteIdle /\ EscalateIdle /\ CacheIdle /\ OrchIdle /\ ExtraIdle
RestOfCacheIdle == RouteIdle /\ EscalateIdle /\ QAIdle /\ OrchIdle /\ ExtraIdle
RestOfOrchIdle == RouteIdle /\ EscalateIdle /\ QAIdle /\ ExtraIdle

------------------------------------------------------------------------------
(* The routing specification: TaskRouter.route applied to a bounded set of  *)
(* tasks.  A task is put together from one profile per sub-score, so that   *)
(* every branch of the four analyses and every clamp is taken.              *)

MaxFiles == 6
MaxIntegrations == 4

\* b's set fields laid over a
Merge(a, b) ==
  [f \in DOMAIN NeutralTask |-> IF b[f] # NeutralTask[f] THEN b[f] ELSE a[f]]

ScopeProfiles ==
  { NeutralTask,
    [NeutralTask EXCEPT !.scope = Some("single-function"), !.services = 3],
    [NeutralTask EXCEPT !.scope = Some("system-wide")],
    [NeutralTask EXCEPT !.scope = Some("cross-system"), !.databases = 2],
    [NeutralTask EXCEPT !.scope = Some("enterprise")],
    [NeutralTask EXCEPT !.scope = Some("enterprise"), !.services = 3],
    [NeutralTask EXCEPT !.governance = TRUE, !.apis = 4],
    [NeutralTask EXCEPT !.crossTeam = TRUE] }
  \cup { [NeutralTask EXCEPT !.files = n] : n \in {1, 2, MaxFiles - 1, MaxFiles} }
  \cup { [NeutralTask EXCEPT !.integrations = n] : n \in 1..MaxIntegrations }

TechProfiles ==
  { NeutralTask,
    [NeutralTask EXCEPT !.technologies = Some(<<>>)],
    [NeutralTask EXCEPT !.technologies = Some(<<"distributed-systems", "microservices">>)],
    [NeutralTask EXCEPT !.technologies = Some(<<"rest", "graphql">>),
                        !.perfRequirements = <<"high-throughput">>],
    [NeutralTask EXCEPT !.technologies = Some(<<"postgresql">>),
                        !.scalability = <<"horizontal", "auto-scaling">>],
    [NeutralTask EXCEPT !.patterns = Some(<<"saga", "cqrs">>),
                        !.perfRequirements = <<"sub-second">>],
    [NeutralTask EXCEPT !.technologies = Some(<<"streaming">>),
                        !.patterns = Some(<<"event-sourcing">>),
                        !.perfRequirements = <<"real-time">>,
                        !.scalability = <<"global-distribution">>] }

DomainProfiles ==
  { NeutralTask,
    [NeutralTask EXCEPT !.domain = Some("architecture")],
    [NeutralTask EXCEPT !.domain = Some("email-marketing")],
    [NeutralTask EXCEPT !.domain = Some("security"), !.compliance = <<"gdpr">>],
    [NeutralTask EXCEPT !.domain = Some("database"),
                        !.businessLogic = <<"complex-calculations">>],
    [NeutralTask EXCEPT !.domain = Some("api"),
                        !.businessLogic = <<"state-machines", "multi-step-workflows">>],
    [NeutralTask EXCEPT !.domain = Some("blockchain"), !.compliance = <<"fda", "sox">>],
    [NeutralTask EXCEPT !.compliance = <<"hipaa", "pci-dss", "iso-27001">>,
                        !.businessLogic = <<"rule-engines">>] }

RiskProfiles ==
  { NeutralTask,
    [NeutralTask EXCEPT !.dataRisk = <<"sensitive">>, !.timelinePressure = Some("urgent")],
    [NeutralTask EXCEPT !.dataRisk = <<"pii", "financial">>,
                        !.systemRisk = <<"user-facing">>],
    [NeutralTask EXCEPT !.systemRisk = <<"production-critical", "revenue-impacting">>,
                        !.implementationRisk = <<"external-dependencies">>],
    [NeutralTask EXCEPT !.dataRisk = <<"medical">>,
                        !.systemRisk = <<"data-loss-potential">>,
                        !.implementationRisk = <<"breaking-changes", "migration-required",
                                                 "rollback-difficult">>,
                        !.timelinePressure = Some("critical")] }

TextProfiles ==
  { NeutralTask,
    [NeutralTask EXCEPT !.description = Some("Get campaign list"),
                        !.complexity = Some(2)],
    [NeutralTask EXCEPT !.description = Some("Design enterprise email marketing platform"),
                        !.complexity = Some(9)],
    [NeutralTask EXCEPT !.description = Some("Tune the cache"),
                        !.requirements = Some(<<"low latency", "QA sign-off">>)] }

\* the two scenario tasks of the routing test (test-implementation.js) and
\* of the specification, as they are written there
SimpleTask ==
  [NeutralTask EXCEPT !.description = Some("Get campaign list"),
                      !.complexity = Some(2)]

SimpleTaskOfTest == [SimpleTask EXCEPT !.domain = Some("email-marketing")]

EnterpriseTask ==
  [NeutralTask EXCEPT !.complexity = Some(9), !.scope = Some("enterprise"),
                      !.technologies = Some(<<"distributed-systems", "microservices">>)]

EnterpriseTaskOfTest ==
  [EnterpriseTask EXCEPT !.description = Some("Design enterprise email marketing platform"),
                         !.domain = Some("architecture")]

EnterpriseTasks ==
  { EnterpriseTask, [EnterpriseTask EXCEPT !.domain = Some("architecture")],
    EnterpriseTaskOfTest }

RouteInputs ==
  { Merge(Merge(Merge(Merge(x, s), t), d), r) :
      x \in TextProfiles, s \in ScopeProfiles, t \in TechProfiles,
      d \in DomainProfiles, r \in RiskProfiles }
  \cup EnterpriseTasks \cup {SimpleTask, SimpleTaskOfTest}

RouteInit ==
  /\ task \in RouteInputs
  /\ routing = None
  /\ rphase = "input"
  /\ RestOfRouteIdle

Route ==
  /\ rphase = "input"
  /\ routing' = Some(route(task))
  /\ rphase' = "routed"
  /\ UNCHANGED <<task, restOfRoute>>

SpecRoute == RouteInit /\ [][Route]_vars

------------------------------------------------------------------------------
(* The escalation specification: autoEscalateTier applied to every tier and *)
(* a bounded set of failure records.                                        *)

MaxSeverity == 10

FailureInputs ==
  { [NoFailure EXCEPT !.primaryCause = c, !.severity = sv, !.failureTypes = ft,
                      !.affectsProduction = ap, !.blocksOtherWork = bw] :
      c \in {None, Some("quality-validation-failure")},
      sv \in {None} \cup {Some(n) : n \in 0..MaxSeverity},
      ft \in {None, Some(<<"logic", "syntax", "logic">>), Some(<<"security", "other">>)},
      ap \in BOOLEAN, bw \in BOOLEAN }

EscalateInit ==
  /\ etier \in Range(Tiers)
  /\ efailure \in FailureInputs
  /\ eresult = None
  /\ RestOfEscalateIdle

Escalate ==
  /\ eresult = None
  /\ eresult' = Some(autoEscalateTier(etier, efailure))
  /\ UNCHANGED <<etier, efailure, restOfEscalate>>

SpecEscalate == EscalateInit /\ [][Escalate]_vars

------------------------------------------------------------------------------
(* The quality specification: validateSpecialistRecommendation applied to a  *)
(* bounded set of recommendations, tasks and sub-check results.  No input    *)
(* puts a floating-point average on a bar exactly, so the exact comparisons  *)
(* of the model are the comparisons of the code.                             *)

\* the recommendation SubAgentOrchestrator.generateSpecialistRecommendation builds
SynthesizedRecommendation ==
  With(NoRecommendation,
    [ approach |-> Some("integration-generalist approach"),
      implementation |-> Some("implementation plan"),
      rationale |-> Some("matches the task"),
      risks |-> Some("low"),
      timeline |-> Some("1-2 weeks"),
      resources |-> Some("one developer"),
      qualityMetrics |-> Some("coverage"),
      testingStrategy |-> Some("unit and integration") ])

CompleteRecommendation ==
  With(NoRecommendation,
    [ implementation |-> Some("add error handling, logging and validation"),
      testing |-> Some("unit tests with mocks"),
      deployment |-> Some("staged rollout"),
      documentation |-> Some("api reference"),
      description |-> Some("Wrap the campaign endpoints behind a client with retries and backoff"),
      timeline |-> Some("2 weeks"),
      resources |-> Some("two developers") ])

RecommendationInputs ==
  { NoRecommendation,
    SynthesizedRecommendation,
    CompleteRecommendation,
    With(CompleteRecommendation, [timeline |-> None]),
    With(CompleteRecommendation, [timeline |-> None, resources |-> None]),
    With(CompleteRecommendation, [description |-> None, resources |-> None,
                                  implementation |-> Some("add logging")]) }

QATask(domain, technologies, complexityScore) ==
  Merge(NeutralTask, [NeutralTask EXCEPT !.domain = domain,
                                         !.technologies = technologies,
                                         !.complexityScore = complexityScore])

QATaskInputs ==
  { NeutralTask,
    QATask(Some("integration"), Some(<<"rest", "graphql">>), Some(5)),
    QATask(Some("integration"), Some(<<"rest", "kafka">>), Some(5)),
    QATask(Some("architecture"), Some(<<"rest">>), Some(5)),
    QATask(Some("integration"), Some(<<>>), Some(5)),
    QATask(Some("integration"), None, Some(5)),
    QATask(Some("integration"), Some(<<"rest", "graphql", "webhooks">>), Some(9)),
    QATask(Some("architecture"), Some(<<"rest", "kafka", "redis">>), Some(5)),
    QATask(Some("integration"), Some(<<"kafka">>), Some(4)),
    QATask(Some("architecture"),
           Some(<<"rest", "graphql", "webhooks", "kafka", "redis">>), Some(5)) }

HiddenInputs ==
  [ totalRiskScore : {0, QScale \div 5, QScale \div 2, QScale},
    riskLevel : {"low", "medium", "high"},
    consistent : {0, ConsistencyChecks - 1, ConsistencyChecks},
    secure : {0, SecurityChecks - 1, SecurityChecks} ]

QAInit ==
  /\ qtask \in QATaskInputs
  /\ qrec \in RecommendationInputs
  /\ qhidden \in HiddenInputs
  /\ qresult = None
  /\ RestOfQAIdle

Validate ==
  /\ qresult = None
  /\ qresult' = Some(validateSpecialistRecommendation("integration-generalist",
                                                      qrec, qtask, qhidden))
  /\ UNCHANGED <<qtask, qrec, qhidden, restOfQA>>

SpecQA == QAInit /\ [][Validate]_vars

------------------------------------------------------------------------------
(* The cache specification: cacheSpecialistConsultation and                  *)
(* retrieveSpecialistCache called in any order on a bounded set of           *)
(* consultations and tasks, while the clock advances.                        *)

MaxConsultations == 2
MaxEvents == 2
MaxTicks == 4

\* the clock advances by a fifth of the base expiration
TimeStep == baseExpiration \div 5

CacheTask(domain, technologies, patterns, complexity) ==
  [NeutralTask EXCEPT !.domain = domain, !.technologies = technologies,
                      !.patterns = patterns, !.complexity = complexity]

\* two equivalent tasks (arrays in another order, complexity in the same even
\* bucket), the same task in another bucket, and a task with no field set
CacheTaskInputs ==
  { CacheTask(Some("integration"), Some(<<"rest", "graphql">>), Some(<<"saga", "cqrs">>), Some(2)),
    CacheTask(Some("integration"), Some(<<"graphql", "rest">>), Some(<<"cqrs", "saga">>), Some(3)),
    CacheTask(Some("integration"), Some(<<"rest", "graphql">>), Some(<<"saga", "cqrs">>), Some(1)),
    CacheTask(None, None, None, None) }

CacheSpecialists == {"integration-generalist", "security-architect"}

\* the quality record a consultation carries, if any
QualityOf(sp) ==
  IF sp = "integration-generalist"
    THEN Some([passed |-> TRUE, score |-> (9 * ScoreOne) \div 10]) ELSE None

ConsultationInputs ==
  { [ specialist |-> sp, task |-> t, recommendation |-> SynthesizedRecommendation,
      outcome |-> None, quality |-> QualityOf(sp) ] :
      sp \in CacheSpecialists, t \in CacheTaskInputs }

\* generateCacheKey over the inputs of this specification, computed once
CacheKeyTable ==
  {<<x, generateCacheKey(x[1], x[2])>> : x \in CacheTaskInputs \X CacheSpecialists}

CacheKeys(t, specialist) == (CHOOSE p \in CacheKeyTable : p[1] = <<t, specialist>>)[2]

CacheInit ==
  /\ CacheIdle
  /\ RestOfCacheIdle

\* the consultations cached so far, over all specialists
RECURSIVE SumConsultations(_, _)
SumConsultations(sm, S) ==
  IF S = {} THEN 0
  ELSE LET k == CHOOSE x \in S : TRUE
       IN sm[k].totalConsultations + SumConsultations(sm, S \ {k})

TotalConsultations == SumConsultations(specialistMetrics, DOMAIN specialistMetrics)

CacheConsultation ==
  /\ TotalConsultations < MaxConsultations
  /\ \E consultation \in ConsultationInputs :
       LET cacheKey == CacheKeys(consultation.task, consultation.specialist)
           cacheEntry == cacheEntryOf(consultation, cacheKey, now)
       IN /\ cache' = cacheStore(cache, cacheEntry)
          /\ specialistMetrics' = updateSpecialistMetrics(specialistMetrics, consultation, now)
          /\ cop' = [ name |-> "cacheSpecialistConsultation", task |-> consultation.task,
                      specialist |-> consultation.specialist, returned |-> Some(cacheEntry) ]
  /\ UNCHANGED <<now, events, restOfCache>>

RetrieveCache ==
  /\ Len(events) < MaxEvents
  /\ \E t \in CacheTaskInputs, sp \in CacheSpecialists :
       LET r == retrieveSpecialistCache(cache, events, CacheKeys(t, sp), now)
       IN /\ cache' = r.cache
          /\ events' = r.events
          /\ cop' = [ name |-> "retrieveSpecialistCache", task |-> t,
                      specialist |-> sp, returned |-> r.returned ]
  /\ UNCHANGED <<now, specialistMetrics, restOfCache>>

Tick ==
  /\ now < MaxTicks * TimeStep
  /\ now' = now + TimeStep
  /\ UNCHANGED <<cache, events, specialistMetrics, cop, restOfCache>>

CacheNext == CacheConsultation \/ RetrieveCache \/ Tick

SpecCache == CacheInit /\ [][CacheNext]_vars

------------------------------------------------------------------------------
(* The orchestrator specification: processTask called on a bounded set of    *)
(* tasks, one call at a time, with the project context updated and the       *)
(* clock advancing in between.  The default configuration is modelled:       *)
(* learning is enabled.                                                      *)

MaxDepth == 6
MaxCalls == 2
MaxContextUpdates == 1

\* the enterprise scenario with its arrays out of order, and a task whose
\* description names an integration failure
UnsortedEnterpriseTask ==
  [ EnterpriseTaskOfTest EXCEPT
      !.technologies = Some(<<"microservices", "distributed-systems">>),
      !.requirements = Some(<<"sso", "audit trail">>) ]

TimeoutTask ==
  [ NeutralTask EXCEPT !.description = Some("Fix the API timeout of the webhook sync"),
                       !.domain = Some("integration"),
                       !.technologies = Some(<<"rest", "graphql">>),
                       !.complexity = Some(2), !.complexityScore = Some(5),
                       !.integrations = 2 ]

OrchTaskInputs == {SimpleTask, UnsortedEnterpriseTask, TimeoutTask}

OptionInputs == {NoOptions, [NoOptions EXCEPT !.useCache = FALSE]}

DecisionInputs == {<<>>, <<"use-event-sourcing">>}

\* every sub-check sound; one security sub-check failing; a high risk level;
\* no consistency sub-check holding
OrchHiddenInputs ==
  { [totalRiskScore |-> 0, riskLevel |-> "low", consistent |-> ConsistencyChecks,
     secure |-> SecurityChecks],
    [totalRiskScore |-> 0, riskLevel |-> "low", consistent |-> ConsistencyChecks,
     secure |-> SecurityChecks - 1],
    [totalRiskScore |-> QScale \div 2, riskLevel |-> "high",
     consistent |-> ConsistencyChecks, secure |-> SecurityChecks] }

FailureHiddenInputs ==
  { [NoFailureHidden EXCEPT !.strategy = s] :
      s \in {None, Some([type |-> "retry"]), Some([type |-> "simplify"]),
             Some([type |-> "rollback"])} }
  \cup { [NoFailureHidden EXCEPT !.security = "critical",
                                 !.strategy = Some([type |-> "retry"])],
         [NoFailureHidden EXCEPT !.performance = "low",
                                 !.strategy = Some([type |-> "retry"])] }

\* each answer of the quality sub-checks with no recovery recommended, and
\* each answer of the detectors with every quality sub-check sound
HiddenInputPairs ==
  (OrchHiddenInputs \X {NoFailureHidden})
  \cup ({CHOOSE h \in OrchHiddenInputs : h.secure = SecurityChecks /\ h.riskLevel = "low"}
        \X FailureHiddenInputs)

\* the complexities a chain of simplify recoveries gives a task
SimplifiedComplexities(t) ==
  {t.complexity} \cup
  {Some(c) : c \in {x \in 1..10 :
     \E k \in 1..5 : x = Max(1, (IF IsSome(t.complexity) THEN Val(t.complexity) ELSE 5)
                                - 2 * k)}}

\* the forms a task of OrchTaskInputs takes while it is processed
TaskForms ==
  UNION { { [f EXCEPT !.complexity = c, !.escalation = e] :
              f \in {t, SortedTask(t), NormalizedInPlace(t)},
              c \in SimplifiedComplexities(t),
              e \in {None, Some([ from |-> "TIER_1",
                                  reason |-> "quality-validation-failure" ])} } :
          t \in OrchTaskInputs }

\* the value a table computed once holds for key, else the value v
Memo(table, key, v) ==
  IF \E p \in table : p[1] = key THEN (CHOOSE p \in table : p[1] = key)[2] ELSE v

\* analyzeTask and route over the task forms, computed once
AnalysisTable == {<<t, analyzeTask(t)>> : t \in TaskForms}
RouteTable == {<<t, route(t)>> : t \in TaskForms}

analyzeTaskOnce(t) == Memo(AnalysisTable, t, analyzeTask(t))
routeOnce(t) == Memo(RouteTable, t, route(t))

\* generateCacheKey over the task forms and the specialists they are routed
\* to, computed once
TaskKeyTable ==
  { <<<<t, sp>>, generateCacheKey(t, sp)>> :
      t \in TaskForms, sp \in {specialistText(routeOnce(f)) : f \in TaskForms} }

TaskKeys(t, specialist) ==
  Memo(TaskKeyTable, <<t, specialist>>, generateCacheKey(t, specialist))

\* the relevant patterns a consultation of this specification is given, by id
PatternForms ==
  {<<>>} \cup {<<[id |-> generatePatternId(n)]>> : n \in 1..(MaxCalls + MaxContextUpdates)}

\* the consulted task forms, each with its specialist and a recommendation
\* generateSpecialistRecommendation gives for it
ConsultationForms ==
  { <<specialistText(routeOnce(t)),
      generateSpecialistRecommendation(t, specialistText(routeOnce(t)),
        registryCapabilities(specialistText(routeOnce(t))), patterns),
      t>> :
      t \in {f \in TaskForms : routeOnce(f).tier # "DIRECT"}, patterns \in PatternForms }

\* validateSpecialistRecommendation over the consultation forms, computed once
ValidationTable ==
  { << <<c[1], c[2], c[3], h>>, validateSpecialistRecommendation(c[1], c[2], c[3], h) >> :
      c \in ConsultationForms, h \in OrchHiddenInputs }

validateOnce(specialist, rec, t, h) ==
  Memo(ValidationTable, <<specialist, rec, t, h>>,
       validateSpecialistRecommendation(specialist, rec, t, h))

\* detectImplementationFailure over the task forms for the error of the
\* pattern search, computed once; the detection carries the time it is made at
DetectionTable ==
  { << <<t, h>>, detectImplementationFailure(TypeErrorMessage, t, h, 0) >> :
      t \in TaskForms, h \in FailureHiddenInputs }

detectOnce(error, t, h, at) ==
  IF error = TypeErrorMessage
    THEN [ Memo(DetectionTable, <<t, h>>, detectImplementationFailure(error, t, h, 0))
             EXCEPT !.timestamp = at ]
    ELSE detectImplementationFailure(error, t, h, at)

------------------------------------------------------------------------------
(* SubAgentOrchestrator: processTask and its handlers.  A call of processTask *)
(* is a frame on the stack; the nested call an escalation or a recovery      *)
(* awaits is the frame above it.  S is the state the handlers thread         *)
(* through: one field per variable they read or write.  The steps of a       *)
(* handler are operators of their own, the parameters of a step being the    *)
(* local variables the handler has set before it.                            *)

NewFrame(t, options, via) ==
  [ task |-> t, options |-> options, via |-> via, taskId |-> "", startTime |-> 0,
    pc |-> "run", error |-> None, failureDetection |-> None, executionTime |-> 0 ]

Top == stack[Len(stack)]

Here ==
  [ stack |-> stack, ret |-> ret, now |-> now, cache |-> cache, events |-> events,
    specialistMetrics |-> specialistMetrics, contexts |-> contexts,
    patternLib |-> patternLib, performanceMetrics |-> performanceMetrics,
    feedbackHistory |-> feedbackHistory, attempts |-> attempts,
    recoveries |-> recoveries, qaCalls |-> qaCalls,
    nextTaskId |-> nextTaskId, nextPatternId |-> nextPatternId ]

\* the call on top of the stack returns outcome
Return(S, outcome) ==
  [S EXCEPT !.ret = Some(outcome), !.stack = SubSeq(@, 1, Len(@) - 1)]

\* the frame on top of the stack becomes frame
SetTop(S, frame) == [S EXCEPT !.stack = [@ EXCEPT ![Len(@)] = frame]]

\* handleTaskFailure from the metrics update on: the failure is recorded and
\* reported
reportFailure(S, frame) ==
  Return(
    [ S EXCEPT
        !.performanceMetrics =
          updatePerformanceMetrics(@, frame.taskId,
            [ NoMetrics EXCEPT !.executionTime = frame.executionTime,
                               !.error = frame.error,
                               !.severity = Some(Val(frame.failureDetection).severity) ],
            S.now),
        !.feedbackHistory =
          integrateImplementationFailureFeedback(@,
            [ task |-> frame.task, error |-> Val(frame.error),
              severity |-> Val(frame.failureDetection).severity ],
            [attempted |-> TRUE, successful |-> FALSE], S.now) ],
    [ NoOutcome EXCEPT
        !.taskId = Some(frame.taskId), !.error = frame.error,
        !.failureAnalysis = frame.failureDetection,
        !.executionTime = Some(frame.executionTime),
        !.recoveryAttempted =
          Some(IsSome(Val(frame.failureDetection).recoveryStrategy)) ])

\* a strategy of an unknown type run as a retry
executeRecoveryStrategyRetriesUnknown(t, strategy) ==
  IF strategy.type = "simplify"
    THEN Some(NewFrame(
           [t EXCEPT !.complexity =
              Some(Max(1, (IF IsSome(t.complexity) /\ Val(t.complexity) # 0
                             THEN Val(t.complexity) ELSE 5) - 2))],
           NoOptions, "recovery"))
    ELSE Some(NewFrame(t, [NoOptions EXCEPT !.retry = TRUE], "recovery"))

\* the frame of the processTask call executeRecoveryStrategy makes, None when
\* it throws 'Unknown recovery strategy'
executeRecoveryStrategy(t, strategy) ==
  CASE strategy.type = "retry" ->
         Some(NewFrame(t, [NoOptions EXCEPT !.retry = TRUE], "recovery"))
    [] strategy.type = "simplify" ->
         Some(NewFrame(
           [t EXCEPT !.complexity =
              Some(Max(1, (IF IsSome(t.complexity) /\ Val(t.complexity) # 0
                             THEN Val(t.complexity) ELSE 5) - 2))],
           NoOptions, "recovery"))
    [] OTHER -> None

\* handleTaskFailure after the detection, up to the nested call of a recovery
\* or to its return; failed is the frame with what the handler holds
attemptRecovery(S, failed, nested) ==
  IF IsSome(Val(failed.failureDetection).recoveryStrategy)
     /\ ~Val(failed.failureDetection).escalationNeeded
    THEN IF IsSome(nested)
           THEN [SetTop(S, failed) EXCEPT !.recoveries = @ + 1,
                                          !.stack = Append(@, Val(nested))]
           ELSE reportFailure([S EXCEPT !.recoveries = @ + 1], failed)
    ELSE reportFailure(S, failed)

recoverFrom(S, frame, error, failureDetection) ==
  attemptRecovery(S,
    [ frame EXCEPT !.pc = "recovering", !.error = Some(error),
                   !.failureDetection = Some(failureDetection),
                   !.executionTime = S.now - frame.startTime ],
    IF IsSome(failureDetection.recoveryStrategy)
      THEN executeRecoveryStrategy(frame.task, Val(failureDetection.recoveryStrategy))
      ELSE None)

\* the error is thrown on to the caller
handleTaskFailureRethrows(S, frame, error, h) == Return(S, Thrown(error))

handleTaskFailure(S, frame, error, h) ==
  recoverFrom(S, frame, error, detectOnce(error, frame.task, h, S.now))

\* 10 - score * 10, rounded down: calculateUrgency compares it with whole numbers
qualityFailureSeverity(score) ==
  IF score = NaN THEN None ELSE Some((10 * ScoreOne - 10 * score) \div ScoreOne)

\* handleQualityFailure after autoEscalateTier, up to the nested call of the
\* escalation or to its return.  The escalation envelope of the new task holds
\* from and reason; the previous consultation in it is read by nothing and is
\* not carried.
escalateTask(S, frame, consultation, qualityValidation, escalation) ==
  IF escalation.canEscalate
    THEN [ SetTop(S, [frame EXCEPT !.pc = "escalating"]) EXCEPT !.stack =
             Append(@, NewFrame(
               [ frame.task EXCEPT !.escalation =
                   Some([ from |-> Val(escalation.escalation).from,
                          reason |-> Val(escalation.escalation).reason ]) ],
               [NoOptions EXCEPT !.tier = Some(Val(escalation.escalation).to)],
               "escalation")) ]
    ELSE Return(S,
           [ NoOutcome EXCEPT
               !.error = Some("Quality validation failed and cannot escalate further"),
               !.consultation = Some(consultation),
               !.qualityIssues = Some(qualityValidation.improvements) ])

\* consultation.routing is a field no consultation has
handleQualityFailure(S, frame, consultation, qualityValidation) ==
  escalateTask(S, frame, consultation, qualityValidation,
    autoEscalateTier(
      IF IsSome(consultation.routing) THEN Val(consultation.routing).tier ELSE "TIER_1",
      [ NoFailure EXCEPT !.primaryCause = Some("quality-validation-failure"),
                         !.severity = qualityFailureSeverity(qualityValidation.score) ]))

\* consultation?.quality?.score || 0.9
outcomeOf(frame, result, consultation, at) ==
  [ successful |-> TRUE, result |-> result,
    executionTime |-> at - frame.startTime,
    qualityScore |->
      IF IsSome(consultation) /\ Val(Val(consultation).quality).score \notin {0, NaN}
        THEN Val(Val(consultation).quality).score ELSE (9 * ScoreOne) \div 10,
    userSatisfaction |-> (9 * ScoreOne) \div 10 ]

\* processTask, steps 6 and 7 for a consultation c: it is cached and stored as
\* a success pattern.  normalizeTask has sorted the arrays of the task object
\* that the frame, the consultation and the cache entry hold.
storeConsultation(S, frame, c, outcome, cacheKey) ==
  [ SetTop(S, [frame EXCEPT !.task = c.task]) EXCEPT
      !.cache = cacheStore(@, cacheEntryOf(c, cacheKey, S.now)),
      !.specialistMetrics = updateSpecialistMetrics(@, c, S.now),
      !.patternLib = storeSuccessPattern(@, c, outcome,
                       getProjectContextVersion(S.contexts), S.nextPatternId, S.now),
      !.nextPatternId = @ + 1 ]

\* processTask, step 8 and the return
succeed(S, frame, complexityAnalysis, rt, consultation, outcome) ==
  Return(
    [ S EXCEPT !.performanceMetrics =
        updatePerformanceMetrics(@, frame.taskId,
          [ NoMetrics EXCEPT !.complexity = Some(complexityAnalysis.overallScore),
                             !.tier = Some(complexityAnalysis.tier),
                             !.executionTime = outcome.executionTime,
                             !.qualityScore = Some(outcome.qualityScore),
                             !.success = TRUE ], S.now) ],
    [ NoOutcome EXCEPT
        !.taskId = Some(frame.taskId), !.success = TRUE,
        !.result = Some(outcome.result),
        !.metadata = Some([ NoMetadata EXCEPT
                              !.complexity = Some(complexityAnalysis),
                              !.routing = Some(rt),
                              !.quality = IF IsSome(consultation)
                                            THEN Val(consultation).quality ELSE None,
                              !.executionTime = Some(outcome.executionTime),
                              !.cacheUsed = Some(FALSE) ]) ])

\* processTask from step 6 on
completeTask(S, frame, complexityAnalysis, rt, result, consultation) ==
  succeed(
    IF IsSome(consultation)
      THEN storeConsultation(S, frame,
             [Val(consultation) EXCEPT !.task = NormalizedInPlace(frame.task)],
             outcomeOf(frame, result, consultation, S.now),
             TaskKeys(frame.task, Val(consultation).specialist))
      ELSE S,
    frame, complexityAnalysis, rt, consultation,
    outcomeOf(frame, result, consultation, S.now))

\* processTask, the quality gate of step 5
qualityGate(S, frame, complexityAnalysis, rt, consultation, qualityValidation) ==
  IF ~qualityValidation.passed /\ qualityValidation.escalationNeeded
    THEN handleQualityFailure(S, frame, consultation, qualityValidation)
    ELSE completeTask(S, frame, complexityAnalysis, rt, consultation.result,
                      Some([consultation EXCEPT !.quality = Some(qualityValidation)]))

\* processTask, step 5: the consultation is validated
validateConsultation(S, frame, complexityAnalysis, rt, consultation, qh) ==
  qualityGate([S EXCEPT !.qaCalls = @ + 1], frame, complexityAnalysis, rt, consultation,
    validateOnce(consultation.specialist, consultation.recommendation, frame.task, qh))

\* executeSpecialistConsultation after getRelevantPatterns
consultSpecialist(t, specialist, specialistInfo, relevantPatterns, recommendation, at) ==
  [ specialist |-> specialist, task |-> t, recommendation |-> recommendation,
    patterns |-> [i \in DOMAIN relevantPatterns |-> relevantPatterns[i].id],
    timestamp |-> at, result |-> recommendation,
    routing |-> None, outcome |-> None, quality |-> None ]

executeSpecialistConsultation(t, rt, relevantPatterns, at) ==
  consultSpecialist(t, specialistText(rt), registryCapabilities(specialistText(rt)),
    relevantPatterns,
    generateSpecialistRecommendation(t, specialistText(rt),
      registryCapabilities(specialistText(rt)), relevantPatterns),
    at)

\* processTask, step 4 for a consultation: searched is what getRelevantPatterns
\* did, an exception of it being caught by processTask
consult(S, frame, complexityAnalysis, rt, searched, qh, fh) ==
  IF searched.thrown
    THEN handleTaskFailure([S EXCEPT !.patternLib = searched.lib], frame,
                           TypeErrorMessage, fh)
    ELSE validateConsultation([S EXCEPT !.patternLib = searched.lib], frame,
           complexityAnalysis, rt,
           executeSpecialistConsultation(frame.task, rt, searched.patterns, S.now), qh)

\* processTask, the return of a cached result and step 4
executeTask(S, frame, complexityAnalysis, rt, cachedResult, qh, fh) ==
  IF IsSome(cachedResult) /\ frame.options.useCache
    THEN Return(S, formatCachedResult(Val(cachedResult), frame.taskId, S.now))
  ELSE IF complexityAnalysis.tier = "DIRECT"
    THEN completeTask(S, frame, complexityAnalysis, rt,
                      executeDirectImplementation(frame.task, rt), None)
  ELSE consult(S, frame, complexityAnalysis, rt,
               getRelevantPatterns(S.patternLib, frame.task), qh, fh)

\* processTask, step 3: generateCacheKey sorts the arrays of the task in place
checkCache(S, frame, complexityAnalysis, rt, looked, qh, fh) ==
  executeTask(
    [ SetTop(S, frame) EXCEPT
        !.cache = looked.cache, !.events = looked.events,
        !.attempts = Append(@, [ task |-> frame.task,
                                 tier |-> complexityAnalysis.tier,
                                 specialist |-> rt.specialist,
                                 via |-> frame.via,
                                 requested |-> frame.options.tier ]) ],
    frame, complexityAnalysis, rt, looked.returned, qh, fh)

\* processTask, the cache lookup of step 3
routeTask(S, called, complexityAnalysis, rt, qh, fh) ==
  checkCache(S, [called EXCEPT !.task = SortedTask(called.task)], complexityAnalysis, rt,
    retrieveSpecialistCache(S.cache, S.events,
      TaskKeys(called.task, specialistText(rt)), S.now),
    qh, fh)

\* processTask up to its return or to the nested call it awaits; qh and fh are
\* what the sub-checks and the detectors missing from src/ answer
processTask(S, called, qh, fh) ==
  routeTask([S EXCEPT !.nextTaskId = @ + 1],
    [called EXCEPT !.taskId = generateTaskId(S.nextTaskId), !.startTime = S.now],
    analyzeTaskOnce(called.task), routeOnce(called.task), qh, fh)

Init ==
  /\ CacheIdle
  /\ RestOfOrchIdle
  /\ stack = <<>>
  /\ ret = None
  /\ contexts = <<>>
  /\ patternLib = <<>>
  /\ performanceMetrics = <<>>
  /\ feedbackHistory = <<>>
  /\ \E h \in HiddenInputPairs : qaHidden = h[1] /\ failureHidden = h[2]
  /\ attempts = <<>>
  /\ recoveries = 0
  /\ qaCalls = 0
  /\ calls = 0
  /\ submitted = <<>>
  /\ nextTaskId = 1
  /\ nextPatternId = 1

\* the variables take the values of the state S
Becomes(S) ==
  /\ stack' = S.stack
  /\ ret' = S.ret
  /\ cache' = S.cache
  /\ events' = S.events
  /\ specialistMetrics' = S.specialistMetrics
  /\ patternLib' = S.patternLib
  /\ performanceMetrics' = S.performanceMetrics
  /\ feedbackHistory' = S.feedbackHistory
  /\ attempts' = S.attempts
  /\ recoveries' = S.recoveries
  /\ qaCalls' = S.qaCalls
  /\ nextTaskId' = S.nextTaskId
  /\ nextPatternId' = S.nextPatternId

\* a caller calls processTask(task, options)
Submit ==
  /\ stack = <<>>
  /\ calls < MaxCalls
  /\ \E t \in OrchTaskInputs, options \in OptionInputs :
       /\ stack' = <<NewFrame(t, options, "submit")>>
       /\ submitted' = Append(submitted, [task |-> t, options |-> options, at |-> now])
  /\ ret' = None
  /\ attempts' = <<>>
  /\ recoveries' = 0
  /\ qaCalls' = 0
  /\ calls' = calls + 1
  /\ UNCHANGED <<contexts, patternLib, performanceMetrics, feedbackHistory,
                 qaHidden, failureHidden, nextTaskId, nextPatternId, cvars, restOfOrch>>

\* the call on top of the stack runs to its return or to the call it awaits
RunTask ==
  /\ stack # <<>>
  /\ Top.pc = "run"
  /\ LET S == processTask(Here, Top, qaHidden, failureHidden)
     IN /\ Len(S.stack) <= MaxDepth
        /\ Becomes(S)
  /\ UNCHANGED <<contexts, qaHidden, failureHidden, calls, submitted, now, cop,
                 restOfOrch>>

\* handleQualityFailure returns what the escalated call returned; an error the
\* escalated call throws is caught by the catch of the processTask that waits
ResumeEscalation ==
  /\ stack # <<>>
  /\ IsSome(ret)
  /\ Top.pc = "escalating"
  /\ Becomes(IF IsSome(Val(ret).thrown)
               THEN handleTaskFailure([Here EXCEPT !.ret = None], Top,
                                      Val(Val(ret).thrown), failureHidden)
               ELSE Return(Here, Val(ret)))
  /\ UNCHANGED <<contexts, qaHidden, failureHidden, calls, submitted, now, cop,
                 restOfOrch>>

\* handleTaskFailure returns a successful recovery, and reports the failure
\* after any other, an error thrown by the recovery included
ResumeRecovery ==
  /\ stack # <<>>
  /\ IsSome(ret)
  /\ Top.pc = "recovering"
  /\ Becomes(IF Val(ret).success THEN Return(Here, Val(ret))
             ELSE reportFailure(Here, Top))
  /\ UNCHANGED <<contexts, qaHidden, failureHidden, calls, submitted, now, cop,
                 restOfOrch>>

\* ContextManager.updateProjectContext: the context becomes current and each
\* architectural decision is stored as a pattern
UpdateProjectContext ==
  /\ Len(contexts) < MaxContextUpdates
  /\ \E decisions \in DecisionInputs :
       /\ contexts' = Append(contexts,
            [ architecturalDecisions |-> decisions, timestamp |-> now,
              version |-> getNextContextVersion(contexts) ])
       /\ patternLib' = patternLib \o identifyNewPatterns(decisions, nextPatternId, now)
       /\ nextPatternId' = nextPatternId + Len(decisions)
  /\ UNCHANGED <<stack, ret, performanceMetrics, feedbackHistory, qaHidden,
                 failureHidden, attempts, recoveries, qaCalls, calls, submitted,
                 nextTaskId,
                 cvars, restOfOrch>>

\* time passes between two calls
Elapse ==
  /\ stack = <<>>
  /\ now < MaxTicks * TimeStep
  /\ now' = now + TimeStep
  /\ UNCHANGED <<cache, events, specialistMetrics, cop, ovars, restOfOrch>>

Next ==
  \/ Submit
  \/ RunTask
  \/ ResumeEscalation
  \/ ResumeRecovery
  \/ UpdateProjectContext
  \/ Elapse

Spec == Init /\ [][Next]_vars

------------------------------------------------------------------------------
(* The quality-failure specification: handleQualityFailure called with a     *)
(* consultation whose quality validation asks for an escalation.  The        *)
(* consultation is the one executeSpecialistConsultation builds, with or     *)
(* without a routing field naming the tier it was made at.                   *)

GateTaskInputs == {UnsortedEnterpriseTask, TimeoutTask}

GateRoutingInputs == {None} \cup {Some([tier |-> x]) : x \in Range(Tiers)}

\* the sub-checks find no risk; the consistency and security sub-checks hold
\* in part or in full
GateHiddenInputs == {h \in HiddenInputs : h.riskLevel = "low" /\ h.totalRiskScore = 0}

GateConsultation(t, r) ==
  [ executeSpecialistConsultation(SortedTask(t), routeOnce(t), <<>>, 0)
      EXCEPT !.routing = r ]

GateValidation(t, h) ==
  validateOnce(specialistText(routeOnce(t)),
               GateConsultation(t, None).recommendation, SortedTask(t), h)

\* the arguments of the calls: the validation failed and asks for an escalation
GateInputs ==
  { [ consultation |-> GateConsultation(th[1], r),
      qualityValidation |-> GateValidation(th[1], th[2]),
      handled |-> FALSE ] :
      th \in {x \in GateTaskInputs \X GateHiddenInputs :
                /\ ~GateValidation(x[1], x[2]).passed
                /\ GateValidation(x[1], x[2]).escalationNeeded},
      r \in GateRoutingInputs }

\* processTask has validated the consultation of its task and is about to
\* call handleQualityFailure
GateInit ==
  /\ \E g \in GateInputs :
       /\ gate = Some(g)
       /\ stack = << [ NewFrame(g.consultation.task, NoOptions, "submit")
                         EXCEPT !.taskId = generateTaskId(1) ] >>
  /\ ret = None
  /\ contexts = <<>>
  /\ patternLib = <<>>
  /\ performanceMetrics = <<>>
  /\ feedbackHistory = <<>>
  /\ qaHidden = NoHidden
  /\ failureHidden = NoFailureHidden
  /\ attempts = <<>>
  /\ recoveries = 0
  /\ qaCalls = 1
  /\ calls = 1
  /\ submitted = <<>>
  /\ nextTaskId = 2
  /\ nextPatternId = 1
  /\ MoreIdle
  /\ feedback = <<>>
  /\ usage = <<>>
  /\ usageLog = <<>>
  /\ inflight = <<>>
  /\ CacheIdle
  /\ RouteIdle /\ EscalateIdle /\ QAIdle

\* handleQualityFailure up to its return or to the escalated call it awaits
HandleQualityFailure ==
  /\ IsSome(gate)
  /\ ~Val(gate).handled
  /\ Becomes(handleQualityFailure(Here, Top, Val(gate).consultation,
                                  Val(gate).qualityValidation))
  /\ gate' = Some([Val(gate) EXCEPT !.handled = TRUE])
  /\ UNCHANGED <<contexts, qaHidden, failureHidden, calls, submitted, now, cop,
                 rvars, evars, qvars, feedback, usage, usageLog, inflight, yvars>>

SpecGate == GateInit /\ [][HandleQualityFailure]_vars

------------------------------------------------------------------------------
(* The feedback specification: processFeedback called for task ids with and  *)
(* without metrics.  It starts after no call, one call or two calls of       *)
(* processTask, each run to its return by the operators above.               *)

MaxFeedbacks == 2

\* the orchestrator and the ContextManager as their constructors leave them
IdleState ==
  [ stack |-> <<>>, ret |-> None, now |-> 0, cache |-> <<>>, events |-> <<>>,
    specialistMetrics |-> <<>>, contexts |-> <<>>, patternLib |-> <<>>,
    performanceMetrics |-> <<>>, feedbackHistory |-> <<>>, attempts |-> <<>>,
    recoveries |-> 0, qaCalls |-> 0, nextTaskId |-> 1, nextPatternId |-> 1 ]

\* the quality sub-checks missing from src/ all hold
SoundHidden == CHOOSE h \in OrchHiddenInputs : h.secure = SecurityChecks /\ h.riskLevel = "low"

\* the state after a caller's call processTask(t) made in state S has returned
AfterTask(S, t) ==
  processTask([S EXCEPT !.stack = <<NewFrame(t, NoOptions, "submit")>>, !.ret = None,
                        !.attempts = <<>>, !.recoveries = 0, !.qaCalls = 0],
              NewFrame(t, NoOptions, "submit"), SoundHidden, NoFailureHidden)

\* the calls made before the feedback
FeedbackHistories == {<<>>, <<SimpleTask>>, <<SimpleTask, TimeoutTask>>}

RECURSIVE AfterTasks(_)
AfterTasks(ts) ==
  IF ts = <<>> THEN IdleState
  ELSE AfterTask(AfterTasks(SubSeq(ts, 1, Len(ts) - 1)), ts[Len(ts)])

\* the variables have the values of the state S
Is(S) ==
  /\ stack = S.stack
  /\ ret = S.ret
  /\ now = S.now
  /\ cache = S.cache
  /\ events = S.events
  /\ specialistMetrics = S.specialistMetrics
  /\ patternLib = S.patternLib
  /\ performanceMetrics = S.performanceMetrics
  /\ feedbackHistory = S.feedbackHistory
  /\ attempts = S.attempts
  /\ recoveries = S.recoveries
  /\ qaCalls = S.qaCalls
  /\ nextTaskId = S.nextTaskId
  /\ nextPatternId = S.nextPatternId

FeedbackTaskIds == {generateTaskId(1), generateTaskId(2), generateTaskId(9)}

\* satisfaction 0.3, 0.6 and 0.9, and a feedback without satisfaction
FeedbackInputs == {[satisfaction |-> x] : x \in {None, Some(30), Some(60), Some(90)}}

FeedbackInit ==
  /\ \E ts \in FeedbackHistories :
       /\ Is(AfterTasks(ts))
       /\ calls = Len(ts)
       /\ submitted = [i \in DOMAIN ts |-> [task |-> ts[i], options |-> NoOptions, at |-> 0]]
  /\ contexts = <<>>
  /\ qaHidden = SoundHidden
  /\ failureHidden = NoFailureHidden
  /\ cop = NoCall
  /\ ExtraIdle
  /\ RouteIdle /\ EscalateIdle /\ QAIdle

\* a caller calls processFeedback(taskId, fb)
ProcessFeedback ==
  /\ stack = <<>>
  /\ Len(feedback) < MaxFeedbacks
  /\ \E taskId \in FeedbackTaskIds, fb \in FeedbackInputs :
       LET done == processFeedback(performanceMetrics, feedbackHistory, taskId, fb, now)
       IN /\ performanceMetrics' = done.performanceMetrics
          /\ feedbackHistory' = done.feedbackHistory
          /\ feedback' = Append(feedback, [ taskId |-> taskId, feedback |-> fb,
                                            thrown |-> done.thrown,
                                            returned |-> done.returned ])
  /\ UNCHANGED <<stack, ret, contexts, patternLib, qaHidden, failureHidden, attempts,
                 recoveries, qaCalls, calls, submitted, nextTaskId, nextPatternId,
                 cvars, rvars, evars, qvars, usage, usageLog, inflight, gate, yvars>>

SpecFeedback == FeedbackInit /\ [][ProcessFeedback]_vars

------------------------------------------------------------------------------
(* The pattern-usage specification: callers report the reuse of patterns     *)
(* with updatePatternUsage, their calls overlapping.  A call runs up to the  *)
(* await of get, then from the pattern get returned up to the await of       *)
(* update, then returns.  It starts after processTask has stored a success   *)
(* pattern, and an architectural decision has been recorded or not.          *)

MaxCallers == 2
MaxReuses == 3

NoUsage == [pc |-> "idle", patternId |-> "", outcome |-> None, held |-> None,
            overlapped |-> FALSE]

UsagePatternIds == {generatePatternId(1), generatePatternId(2), generatePatternId(9)}

\* a reuse that succeeded and one that did not
UsageOutcomes ==
  { [successful |-> TRUE, qualityScore |-> (8 * ScoreOne) \div 10,
     userSatisfaction |-> (9 * ScoreOne) \div 10],
    [successful |-> FALSE, qualityScore |-> (4 * ScoreOne) \div 10,
     userSatisfaction |-> (3 * ScoreOne) \div 10] }

UsageInit ==
  /\ Is(AfterTasks(<<TimeoutTask>>))
  /\ calls = 1
  /\ submitted = <<[task |-> TimeoutTask, options |-> NoOptions, at |-> 0]>>
  /\ contexts = <<>>
  /\ qaHidden = SoundHidden
  /\ failureHidden = NoFailureHidden
  /\ cop = NoCall
  /\ MoreIdle
  /\ feedback = <<>>
  /\ usage = [c \in 1..MaxCallers |-> NoUsage]
  /\ usageLog = <<>>
  /\ inflight = <<>>
  /\ gate = None
  /\ RouteIdle /\ EscalateIdle /\ QAIdle

\* the calls made so far
UsageCalls == Len(usageLog) + Cardinality({c \in DOMAIN usage : usage[c].pc # "idle"})

\* a caller calls updatePatternUsage(patternId, outcome): it runs up to the
\* await of get
CallUpdatePatternUsage(c) ==
  /\ usage[c].pc = "idle"
  /\ UsageCalls < MaxReuses
  /\ \E patternId \in UsagePatternIds, outcome \in UsageOutcomes :
       usage' = [usage EXCEPT ![c] =
                   [ pc |-> "got", patternId |-> patternId, outcome |-> Some(outcome),
                     held |-> patternGet(patternLib, patternId),
                     overlapped |-> \E d \in DOMAIN usage : usage[d].pc # "idle" ]]
  /\ UNCHANGED <<patternLib, usageLog, nextPatternId, contexts>>

\* the call goes on with what get returned: it returns for no pattern, and
\* otherwise changes the pattern and runs up to the await of update, or throws
ChangePattern(c) ==
  /\ usage[c].pc = "got"
  /\ IF ~IsSome(usage[c].held)
       THEN /\ usage' = [usage EXCEPT ![c] = NoUsage]
            /\ usageLog' = Append(usageLog, [ patternId |-> usage[c].patternId,
                                              successful |-> Val(usage[c].outcome).successful,
                                              applied |-> FALSE, thrown |-> FALSE,
                                              overlapped |-> usage[c].overlapped ])
            /\ UNCHANGED patternLib
       ELSE LET done == updatePatternUsage(patternLib, Val(usage[c].held),
                                           Val(usage[c].outcome), now)
            IN /\ patternLib' = done.lib
               /\ IF done.thrown
                    THEN /\ usage' = [usage EXCEPT ![c] = NoUsage]
                         /\ usageLog' = Append(usageLog,
                              [ patternId |-> usage[c].patternId,
                                successful |-> Val(usage[c].outcome).successful,
                                applied |-> TRUE, thrown |-> TRUE,
                                overlapped |-> usage[c].overlapped ])
                    ELSE /\ usage' = [usage EXCEPT ![c].pc = "updated"]
                         /\ UNCHANGED usageLog
  /\ UNCHANGED <<nextPatternId, contexts>>

\* update has returned: the call returns the pattern
ReturnPattern(c) ==
  /\ usage[c].pc = "updated"
  /\ usage' = [usage EXCEPT ![c] = NoUsage]
  /\ usageLog' = Append(usageLog, [ patternId |-> usage[c].patternId,
                                    successful |-> Val(usage[c].outcome).successful,
                                    applied |-> TRUE, thrown |-> FALSE,
                                    overlapped |-> usage[c].overlapped ])
  /\ UNCHANGED <<patternLib, nextPatternId, contexts>>

\* updateProjectContext records an architectural decision as a pattern
RecordDecision ==
  /\ contexts = <<>>
  /\ \A c \in DOMAIN usage : usage[c].pc = "idle"
  /\ usageLog = <<>>
  /\ contexts' = <<[ architecturalDecisions |-> <<"use-event-sourcing">>,
                     timestamp |-> now, version |-> getNextContextVersion(contexts) ]>>
  /\ patternLib' = patternLib \o identifyNewPatterns(<<"use-event-sourcing">>, nextPatternId, now)
  /\ nextPatternId' = nextPatternId + 1
  /\ UNCHANGED <<usage, usageLog>>

restOfUsage ==
  <<stack, ret, performanceMetrics, feedbackHistory, qaHidden, failureHidden, attempts,
    recoveries, qaCalls, calls, submitted, nextTaskId, cvars, rvars, evars, qvars,
    feedback, inflight, gate, yvars>>

UsageNext ==
  \/ \E c \in 1..MaxCallers : CallUpdatePatternUsage(c) /\ UNCHANGED restOfUsage
  \/ \E c \in 1..MaxCallers : ChangePattern(c) /\ UNCHANGED restOfUsage
  \/ \E c \in 1..MaxCallers : ReturnPattern(c) /\ UNCHANGED restOfUsage
  \/ RecordDecision /\ UNCHANGED restOfUsage

SpecUsage == UsageInit /\ [][UsageNext]_vars

------------------------------------------------------------------------------
(* The overlapping-calls specification: callers call processTask while other *)
(* calls are in progress, as Promise.all([processTask(a), processTask(b)])   *)
(* does.  Every call has a stack of its own; the cache, the pattern library  *)
(* and the metrics are the orchestrator's.  A call gives way to the others   *)
(* at its awaits: it runs up to the await of retrieveSpecialistCache, then   *)
(* from the answer of the cache up to its return or to the nested call it    *)
(* awaits.  updateProjectContext is called between any two of these steps.   *)

MaxOverlapCallers == 2
MaxOverlapCalls == 2
MaxOverlapDepth == 3

OverlapTaskInputs == {SimpleTask, TimeoutTask}

\* the quality sub-checks and the detectors missing from src/: all sound, a
\* quality gate that fails, and a pattern search that fails
OverlapHiddenInputs ==
  { h \in HiddenInputPairs :
      \/ h[1] = SoundHidden
      \/ h[2] = NoFailureHidden /\ h[1].riskLevel = "low" }

NoSlot == [stack |-> <<>>, ret |-> None, call |-> 0, local |-> None]

\* no call is in progress
OverlapInit ==
  /\ Is(IdleState)
  /\ calls = 0
  /\ submitted = <<>>
  /\ contexts = <<>>
  /\ \E h \in OverlapHiddenInputs : qaHidden = h[1] /\ failureHidden = h[2]
  /\ cop = NoCall
  /\ MoreIdle
  /\ feedback = <<>>
  /\ usage = <<>>
  /\ usageLog = <<>>
  /\ inflight = [ slots |-> [c \in 1..MaxOverlapCallers |-> NoSlot],
                  consulted |-> <<>>, overlap |-> {} ]
  /\ gate = None
  /\ RouteIdle /\ EscalateIdle /\ QAIdle

\* the orchestrator as the call of caller c sees it
OverlapHere(c) ==
  [Here EXCEPT !.stack = inflight.slots[c].stack, !.ret = inflight.slots[c].ret]

OverlapTop(c) == inflight.slots[c].stack[Len(inflight.slots[c].stack)]

InProgress(c) == inflight.slots[c].stack # <<>>

\* what the orchestrator's fields become
Shares(S) ==
  /\ cache' = S.cache
  /\ events' = S.events
  /\ specialistMetrics' = S.specialistMetrics
  /\ patternLib' = S.patternLib
  /\ performanceMetrics' = S.performanceMetrics
  /\ feedbackHistory' = S.feedbackHistory
  /\ attempts' = S.attempts
  /\ recoveries' = S.recoveries
  /\ qaCalls' = S.qaCalls
  /\ nextTaskId' = S.nextTaskId
  /\ nextPatternId' = S.nextPatternId

\* processTask, steps 1 to 3 up to the answer of the cache: the state, and the
\* local variables the call holds while it awaits
lookedUp(S, frame, complexityAnalysis, rt, looked) ==
  [ state |->
      [ SetTop(S, [frame EXCEPT !.pc = "looked"]) EXCEPT
          !.cache = looked.cache, !.events = looked.events,
          !.attempts = Append(@, [ task |-> frame.task,
                                   tier |-> complexityAnalysis.tier,
                                   specialist |-> rt.specialist,
                                   via |-> frame.via,
                                   requested |-> frame.options.tier ]) ],
    local |-> [ complexityAnalysis |-> complexityAnalysis, routing |-> rt,
                cachedResult |-> looked.returned ] ]

lookUp(S, called, complexityAnalysis, rt) ==
  lookedUp(S, [called EXCEPT !.task = SortedTask(called.task)], complexityAnalysis, rt,
    retrieveSpecialistCache(S.cache, S.events,
      TaskKeys(called.task, specialistText(rt)), S.now))

beginTask(S, called) ==
  lookUp([S EXCEPT !.nextTaskId = @ + 1],
    [called EXCEPT !.taskId = generateTaskId(S.nextTaskId), !.startTime = S.now],
    analyzeTaskOnce(called.task), routeOnce(called.task))

\* processTask from the answer of the cache on
resumeTask(S, frame, local, qh, fh) ==
  executeTask(S, [frame EXCEPT !.pc = "run"], local.complexityAnalysis, local.routing,
              local.cachedResult, qh, fh)

\* the call of caller c goes on as S, holding local
Continues(c, S, local) ==
  /\ Len(S.stack) <= MaxOverlapDepth
  /\ Shares(S)
  /\ inflight' = [inflight EXCEPT
       !.slots[c] = [@ EXCEPT !.stack = S.stack, !.ret = S.ret, !.local = local],
       !.consulted =
         IF S.qaCalls > qaCalls
           THEN Append(@, [ call |-> inflight.slots[c].call,
                            useCache |-> OverlapTop(c).options.useCache,
                            specialist |-> specialistText(Val(inflight.slots[c].local).routing),
                            cacheKey |-> TaskKeys(OverlapTop(c).task,
                              specialistText(Val(inflight.slots[c].local).routing)) ])
           ELSE @ ]

\* caller c calls processTask(task, options)
OverlapSubmit(c) ==
  /\ ~InProgress(c)
  /\ calls < MaxOverlapCalls
  /\ \E t \in OverlapTaskInputs, options \in OptionInputs :
       /\ inflight' = [inflight EXCEPT
            !.slots[c] = [ stack |-> <<NewFrame(t, options, "submit")>>, ret |-> None,
                           call |-> calls + 1, local |-> None ],
            !.overlap = @ \cup { {calls + 1, inflight.slots[d].call} :
                                   d \in {e \in DOMAIN inflight.slots : InProgress(e)} } ]
       /\ submitted' = Append(submitted, [task |-> t, options |-> options, at |-> now])
  /\ calls' = calls + 1
  /\ UNCHANGED <<stack, ret, contexts, patternLib, performanceMetrics, feedbackHistory,
                 qaHidden, failureHidden, attempts, recoveries, qaCalls, nextTaskId,
                 nextPatternId, cvars>>

\* the call on top of the stack of caller c runs up to the await of
\* retrieveSpecialistCache
OverlapLookUp(c) ==
  /\ InProgress(c)
  /\ OverlapTop(c).pc = "run"
  /\ Shares(beginTask(OverlapHere(c), OverlapTop(c)).state)
  /\ inflight' = [inflight EXCEPT !.slots[c] =
       [@ EXCEPT !.stack = beginTask(OverlapHere(c), OverlapTop(c)).state.stack,
                 !.local = Some(beginTask(OverlapHere(c), OverlapTop(c)).local)]]
  /\ UNCHANGED <<stack, ret, contexts, qaHidden, failureHidden, calls, submitted, now, cop>>

\* it goes on from the answer of the cache to its return or to the nested call
\* it awaits
OverlapExecute(c) ==
  /\ InProgress(c)
  /\ OverlapTop(c).pc = "looked"
  /\ Continues(c, resumeTask(OverlapHere(c), OverlapTop(c), Val(inflight.slots[c].local),
                             qaHidden, failureHidden), inflight.slots[c].local)
  /\ UNCHANGED <<stack, ret, contexts, qaHidden, failureHidden, calls, submitted, now, cop>>

\* the nested call a handler of caller c awaited has returned
OverlapResume(c) ==
  /\ InProgress(c)
  /\ IsSome(inflight.slots[c].ret)
  /\ OverlapTop(c).pc \in {"escalating", "recovering"}
  /\ Continues(c,
       IF OverlapTop(c).pc = "recovering"
         THEN IF Val(inflight.slots[c].ret).success
                THEN Return(OverlapHere(c), Val(inflight.slots[c].ret))
                ELSE reportFailure(OverlapHere(c), OverlapTop(c))
       ELSE IF IsSome(Val(inflight.slots[c].ret).thrown)
         THEN handleTaskFailure([OverlapHere(c) EXCEPT !.ret = None], OverlapTop(c),
                                Val(Val(inflight.slots[c].ret).thrown), failureHidden)
       ELSE Return(OverlapHere(c), Val(inflight.slots[c].ret)),
       inflight.slots[c].local)
  /\ UNCHANGED <<stack, ret, contexts, qaHidden, failureHidden, calls, submitted, now, cop>>

restOfOverlap == <<rvars, evars, qvars, feedback, usage, usageLog, gate, yvars>>

OverlapNext ==
  \/ \E c \in 1..MaxOverlapCallers : OverlapSubmit(c) /\ UNCHANGED restOfOverlap
  \/ \E c \in 1..MaxOverlapCallers : OverlapLookUp(c) /\ UNCHANGED restOfOverlap
  \/ \E c \in 1..MaxOverlapCallers : OverlapExecute(c) /\ UNCHANGED restOfOverlap
  \/ \E c \in 1..MaxOverlapCallers : OverlapResume(c) /\ UNCHANGED restOfOverlap
  \/ UpdateProjectContext

SpecOverlap == OverlapInit /\ [][OverlapNext]_vars

------------------------------------------------------------------------------
(* The metrics specification: calls of processTask complete, successfully or *)
(* not, while others are in progress.  A call takes its task id when it      *)
(* starts and records its metrics when it completes; updatePerformanceMetrics *)
(* has no await, so it runs as one step.  It starts with the history that a  *)
(* number of earlier calls, each run to its end, have left.                  *)

MaxCompleters == 2
MaxCompletions == 3

\* how many calls have completed before, around the trim and its limit
MetricsStarts == {0, 1, MetricsKeep - 1, MetricsKeep, MetricsLimit - 2,
                  MetricsLimit - 1, MetricsLimit}

\* the metrics processTask records for a DIRECT task, and those
\* handleTaskFailure records
DirectMetrics ==
  [ NoMetrics EXCEPT !.complexity = Some(100), !.tier = Some("DIRECT"),
                     !.qualityScore = Some((9 * ScoreOne) \div 10), !.success = TRUE ]

FailureMetrics ==
  [ NoMetrics EXCEPT !.error = Some(TypeErrorMessage), !.severity = Some(5) ]

NoCompletion == [pc |-> "idle", taskId |-> ""]

MetricsInit ==
  /\ \E n \in MetricsStarts :
       /\ performanceMetrics =
            [i \in 1..n |-> [DirectMetrics EXCEPT !.taskId = generateTaskId(i)]]
       /\ nextTaskId = n + 1
  /\ completing = [c \in 1..MaxCompleters |-> NoCompletion]
  /\ updating = <<>>
  /\ detection = None
  /\ LaterIdle
  /\ stack = <<>>
  /\ ret = None
  /\ contexts = <<>>
  /\ patternLib = <<>>
  /\ feedbackHistory = <<>>
  /\ qaHidden = NoHidden
  /\ failureHidden = NoFailureHidden
  /\ attempts = <<>>
  /\ recoveries = 0
  /\ qaCalls = 0
  /\ calls = 0
  /\ submitted = <<>>
  /\ nextPatternId = 1
  /\ feedback = <<>>
  /\ usage = <<>>
  /\ usageLog = <<>>
  /\ inflight = <<>>
  /\ gate = None
  /\ CacheIdle
  /\ RouteIdle /\ EscalateIdle /\ QAIdle

\* a call of processTask starts: generateTaskId
BeginCompletion(c) ==
  /\ completing[c].pc = "idle"
  /\ calls < MaxCompletions
  /\ completing' = [completing EXCEPT ![c] = [ pc |-> "running",
                                               taskId |-> generateTaskId(nextTaskId) ]]
  /\ nextTaskId' = nextTaskId + 1
  /\ calls' = calls + 1
  /\ UNCHANGED performanceMetrics

\* it completes: step 8 of processTask
RecordSuccess(c) ==
  /\ completing[c].pc = "running"
  /\ performanceMetrics' =
       updatePerformanceMetrics(performanceMetrics, completing[c].taskId, DirectMetrics, now)
  /\ completing' = [completing EXCEPT ![c] = NoCompletion]
  /\ UNCHANGED <<nextTaskId, calls>>

\* it fails: the metrics update of handleTaskFailure
RecordFailure(c) ==
  /\ completing[c].pc = "running"
  /\ performanceMetrics' =
       updatePerformanceMetrics(performanceMetrics, completing[c].taskId, FailureMetrics, now)
  /\ completing' = [completing EXCEPT ![c] = NoCompletion]
  /\ UNCHANGED <<nextTaskId, calls>>

restOfMetrics ==
  <<stack, ret, contexts, patternLib, feedbackHistory, qaHidden, failureHidden, attempts,
    recoveries, qaCalls, submitted, nextPatternId, cvars, rvars, evars, qvars,
    feedback, usage, usageLog, inflight, gate, updating, detection, zvars>>

MetricsNext ==
  \/ \E c \in 1..MaxCompleters : BeginCompletion(c) /\ UNCHANGED restOfMetrics
  \/ \E c \in 1..MaxCompleters : RecordSuccess(c) /\ UNCHANGED restOfMetrics
  \/ \E c \in 1..MaxCompleters : RecordFailure(c) /\ UNCHANGED restOfMetrics

SpecMetrics == MetricsInit /\ [][MetricsNext]_vars

------------------------------------------------------------------------------
(* The project-context specification: callers call updateProjectContext      *)
(* while other calls of it are in progress.  A call runs up to the await of  *)
(* getCurrent in getNextContextVersion, then from the answer up to the await *)
(* of update, then stores the patterns of its decisions and returns.         *)

MaxUpdaters == 2
MaxUpdates == 3

ContextDecisionInputs == {<<>>, <<"use-event-sourcing">>, <<"use-cqrs">>}

NoUpdate == [pc |-> "idle", decisions |-> <<>>, timestamp |-> 0, current |-> None]

ContextInit ==
  /\ Is(IdleState)
  /\ calls = 0
  /\ submitted = <<>>
  /\ contexts = <<>>
  /\ qaHidden = NoHidden
  /\ failureHidden = NoFailureHidden
  /\ cop = NoCall
  /\ completing = <<>>
  /\ updating = [ slots |-> [c \in 1..MaxUpdaters |-> NoUpdate], currentVersion |-> 0 ]
  /\ detection = None
  /\ LaterIdle
  /\ feedback = <<>>
  /\ usage = <<>>
  /\ usageLog = <<>>
  /\ inflight = <<>>
  /\ gate = None
  /\ RouteIdle /\ EscalateIdle /\ QAIdle

\* a caller calls updateProjectContext(context): the snapshot is built up to
\* its version, and getCurrent reads the current snapshot
CallUpdateProjectContext(c) ==
  /\ updating.slots[c].pc = "idle"
  /\ calls < MaxUpdates
  /\ \E decisions \in ContextDecisionInputs :
       updating' = [updating EXCEPT !.slots[c] =
         [ pc |-> "versioned", decisions |-> decisions, timestamp |-> now,
           current |-> contextGetCurrent(contexts, updating.currentVersion) ]]
  /\ calls' = calls + 1
  /\ UNCHANGED <<contexts, patternLib, nextPatternId>>

\* the version is computed from what getCurrent answered and the snapshot is
\* handed to update
StoreProjectContext(c) ==
  /\ updating.slots[c].pc = "versioned"
  /\ contexts' = contextUpdate(contexts,
       [ architecturalDecisions |-> updating.slots[c].decisions,
         timestamp |-> updating.slots[c].timestamp,
         version |-> versionAfter(updating.slots[c].current) ])
  /\ updating' = [updating EXCEPT !.slots[c].pc = "stored",
                                  !.currentVersion = versionAfter(updating.slots[c].current)]
  /\ UNCHANGED <<calls, patternLib, nextPatternId>>

\* updateLearningPatterns stores a pattern for each decision; the call returns
LearnProjectPatterns(c) ==
  /\ updating.slots[c].pc = "stored"
  /\ patternLib' = patternLib \o
       identifyNewPatterns(updating.slots[c].decisions, nextPatternId, now)
  /\ nextPatternId' = nextPatternId + Len(updating.slots[c].decisions)
  /\ updating' = [updating EXCEPT !.slots[c] = NoUpdate]
  /\ UNCHANGED <<calls, contexts>>

restOfContext ==
  <<stack, ret, performanceMetrics, feedbackHistory, qaHidden, failureHidden, attempts,
    recoveries, qaCalls, submitted, nextTaskId, cvars, rvars, evars, qvars,
    feedback, usage, usageLog, inflight, gate, completing, detection, zvars>>

ContextNext ==
  \/ \E c \in 1..MaxUpdaters : CallUpdateProjectContext(c) /\ UNCHANGED restOfContext
  \/ \E c \in 1..MaxUpdaters : StoreProjectContext(c) /\ UNCHANGED restOfContext
  \/ \E c \in 1..MaxUpdaters : LearnProjectPatterns(c) /\ UNCHANGED restOfContext

SpecContext == ContextInit /\ [][ContextNext]_vars

------------------------------------------------------------------------------
(* The expiration specification: consultations of tasks of every complexity  *)
(* hint are cached by cacheSpecialistConsultation.                           *)

MaxComplexityHint == 12

\* a task with each complexity hint, and one without
ExpireTaskInputs ==
  { CacheTask(Some("integration"), None, None, c) :
      c \in {None} \cup {Some(n) : n \in 0..MaxComplexityHint} }

ExpireKeyTable ==
  {<<t, generateCacheKey(t, "integration-generalist")>> : t \in ExpireTaskInputs}

ExpireInit ==
  /\ CacheIdle
  /\ RestOfCacheIdle

ExpireConsultation ==
  /\ TotalConsultations < MaxConsultations
  /\ \E t \in ExpireTaskInputs :
       /\ cache' = cacheStore(cache,
            cacheEntryOf([ specialist |-> "integration-generalist", task |-> t,
                           recommendation |-> SynthesizedRecommendation,
                           outcome |-> None,
                           quality |-> QualityOf("integration-generalist") ],
                         Memo(ExpireKeyTable, t, ""), now))
       /\ specialistMetrics' = updateSpecialistMetrics(specialistMetrics,
            [ specialist |-> "integration-generalist", task |-> t,
              recommendation |-> SynthesizedRecommendation,
              outcome |-> None, quality |-> QualityOf("integration-generalist") ], now)
       /\ cop' = [ name |-> "cacheSpecialistConsultation", task |-> t,
                   specialist |-> "integration-generalist", returned |-> None ]
  /\ UNCHANGED <<now, events, restOfCache>>

SpecExpire == ExpireInit /\ [][ExpireConsultation \/ Tick]_vars

------------------------------------------------------------------------------
(* The pattern-library specification: processTask stores success patterns    *)
(* (step 7) and updateProjectContext stores the patterns of its decisions,   *)
(* each call run to its end.                                                 *)

MaxStores == 4

LibraryTaskInputs == {TimeoutTask, UnsortedEnterpriseTask}

\* outcomes of processTask: successful, with the quality score of the gate
LibraryOutcomes ==
  { [ successful |-> TRUE, qualityScore |-> (q * ScoreOne) \div 10,
      userSatisfaction |-> (9 * ScoreOne) \div 10 ] : q \in {7, 9} }

LibraryInit ==
  /\ Is(IdleState)
  /\ calls = 0
  /\ submitted = <<>>
  /\ contexts = <<>>
  /\ qaHidden = NoHidden
  /\ failureHidden = NoFailureHidden
  /\ cop = NoCall
  /\ MoreIdle
  /\ feedback = <<>>
  /\ usage = <<>>
  /\ usageLog = <<>>
  /\ inflight = <<>>
  /\ gate = None
  /\ RouteIdle /\ EscalateIdle /\ QAIdle

\* step 7 of processTask: storeSuccessPattern(consultation, outcome)
StoreSuccessPattern ==
  /\ nextPatternId <= MaxStores
  /\ \E t \in LibraryTaskInputs, outcome \in LibraryOutcomes :
       patternLib' = storeSuccessPattern(patternLib,
         [specialist |-> specialistText(routeOnce(t)), task |-> t], outcome,
         getProjectContextVersion(contexts), nextPatternId, now)
  /\ nextPatternId' = nextPatternId + 1
  /\ UNCHANGED contexts

\* updateProjectContext: the snapshot is stored and updateLearningPatterns
\* stores a pattern for each decision
LearnDecisions ==
  /\ nextPatternId <= MaxStores
  /\ Len(contexts) < MaxStores
  /\ \E decisions \in ContextDecisionInputs :
       /\ contexts' = contextUpdate(contexts,
            [ architecturalDecisions |-> decisions, timestamp |-> now,
              version |-> getNextContextVersion(contexts) ])
       /\ patternLib' = patternLib \o identifyNewPatterns(decisions, nextPatternId, now)
       /\ nextPatternId' = nextPatternId + Len(decisions)

LibraryNext ==
  \/ StoreSuccessPattern /\ UNCHANGED <<restOfContext, calls, updating>>
  \/ LearnDecisions /\ UNCHANGED <<restOfContext, calls, updating>>

SpecLibrary == LibraryInit /\ [][LibraryNext]_vars

------------------------------------------------------------------------------
(* The detection specification: detectImplementationFailure is called with   *)
(* an error and a task as handleTaskFailure calls it, the two detectors      *)
(* missing from src/ reporting each severity.                                *)

SeverityNames == {"none", "low", "medium", "high", "critical"}

DetectErrorInputs ==
  { TypeErrorMessage, "TypeError: x is not a function", "connection refused",
    "race condition in the sync loop", "Unknown recovery strategy" }

DetectTaskInputs == {SimpleTask, TimeoutTask}

DetectInit ==
  /\ \E error \in DetectErrorInputs, t \in DetectTaskInputs :
       detection = Some([error |-> error, task |-> t, result |-> None])
  /\ \E p \in SeverityNames, q \in SeverityNames :
       failureHidden = [NoFailureHidden EXCEPT !.performance = p, !.security = q]
  /\ completing = <<>>
  /\ updating = <<>>
  /\ LaterIdle
  /\ Is(IdleState)
  /\ calls = 0
  /\ submitted = <<>>
  /\ contexts = <<>>
  /\ qaHidden = NoHidden
  /\ cop = NoCall
  /\ feedback = <<>>
  /\ usage = <<>>
  /\ usageLog = <<>>
  /\ inflight = <<>>
  /\ gate = None
  /\ RouteIdle /\ EscalateIdle /\ QAIdle

Detect ==
  /\ IsSome(detection)
  /\ ~IsSome(Val(detection).result)
  /\ detection' = Some([Val(detection) EXCEPT !.result =
       Some(detectImplementationFailure(Val(detection).error, Val(detection).task,
                                        failureHidden, now))])
  /\ UNCHANGED <<rvars, evars, qvars, cvars, ovars, feedback, usage, usageLog, inflight,
                 gate, completing, updating, zvars>>

SpecDetect == DetectInit /\ [][Detect]_vars

------------------------------------------------------------------------------
(* The pattern-shape specification: storeSuccessPattern, updateProjectContext *)
(* and updatePatternUsage are called one after the other, in any order, on a  *)
(* library that starts empty.  usageLog keeps what each call was.             *)

MaxPatternOps == 3

\* outcomes handed to storeSuccessPattern and updatePatternUsage
PatternOutcomes == UsageOutcomes

PatternsInit == LibraryInit

\* storeSuccessPattern(consultation, outcome)
CallStoreSuccessPattern ==
  /\ calls < MaxPatternOps
  /\ \E t \in LibraryTaskInputs, outcome \in PatternOutcomes :
       /\ patternLib' = storeSuccessPattern(patternLib,
            [specialist |-> specialistText(routeOnce(t)), task |-> t], outcome,
            getProjectContextVersion(contexts), nextPatternId, now)
       /\ nextPatternId' = IF outcome.successful THEN nextPatternId + 1 ELSE nextPatternId
       /\ usageLog' = Append(usageLog, [ op |-> "storeSuccessPattern",
                                         successful |-> outcome.successful ])
  /\ calls' = calls + 1
  /\ UNCHANGED contexts

\* updateProjectContext(context), with its decisions
CallLearnDecisions ==
  /\ calls < MaxPatternOps
  /\ \E decisions \in ContextDecisionInputs :
       /\ contexts' = contextUpdate(contexts,
            [ architecturalDecisions |-> decisions, timestamp |-> now,
              version |-> getNextContextVersion(contexts) ])
       /\ patternLib' = patternLib \o identifyNewPatterns(decisions, nextPatternId, now)
       /\ nextPatternId' = nextPatternId + Len(decisions)
       /\ usageLog' = Append(usageLog, [ op |-> "updateProjectContext",
                                         successful |-> decisions # <<>> ])
  /\ calls' = calls + 1

\* updatePatternUsage(patternId, outcome), no other call running: get, the
\* changes of the pattern, update
CallReusePattern ==
  /\ calls < MaxPatternOps
  /\ \E patternId \in UsagePatternIds, outcome \in PatternOutcomes :
       /\ patternLib' =
            IF IsSome(patternGet(patternLib, patternId))
              THEN updatePatternUsage(patternLib, Val(patternGet(patternLib, patternId)),
                                      outcome, now).lib
              ELSE patternLib
       /\ usageLog' = Append(usageLog, [ op |-> "updatePatternUsage",
                                         successful |-> outcome.successful ])
  /\ calls' = calls + 1
  /\ UNCHANGED <<contexts, nextPatternId>>

restOfPatterns ==
  <<stack, ret, performanceMetrics, feedbackHistory, qaHidden, failureHidden, attempts,
    recoveries, qaCalls, submitted, nextTaskId, cvars, rvars, evars, qvars,
    feedback, usage, inflight, gate, yvars>>

PatternsNext ==
  \/ CallStoreSuccessPattern /\ UNCHANGED restOfPatterns
  \/ CallLearnDecisions /\ UNCHANGED restOfPatterns
  \/ CallReusePattern /\ UNCHANGED restOfPatterns

SpecPatterns == PatternsInit /\ [][PatternsNext]_vars

------------------------------------------------------------------------------
(* The specialist-metrics specification: callers call                        *)
(* cacheSpecialistConsultation for one specialist, their calls overlapping.  *)
(* A call runs up to the await of store, then up to the await of             *)
(* getSpecialistMetrics, then up to the await of updateSpecialistMetrics of  *)
(* the storage, then returns.  The metrics the storage holds are objects:    *)
(* objs keeps every metrics object made, current is the one the Map holds    *)
(* for the specialist (0 for none), and a caller holds an object by its      *)
(* place in objs.  done keeps the consultation of every call that returned.  *)

MaxCachers == 2
MaxCachings == 3

MeteredSpecialist == "integration-generalist"

MeteredTask ==
  CacheTask(Some("integration"), Some(<<"rest", "graphql">>), Some(<<"saga", "cqrs">>), Some(2))

\* consultations that succeeded or carry no outcome, of two quality scores
MeteredConsultations ==
  { [ specialist |-> MeteredSpecialist, task |-> MeteredTask,
      recommendation |-> SynthesizedRecommendation, outcome |-> o,
      quality |-> Some([passed |-> TRUE, score |-> (q * ScoreOne) \div 10]) ] :
      o \in {None, Some([successful |-> TRUE])}, q \in {6, 9} }

NoCaching == [pc |-> "idle", consultation |-> None, held |-> 0]

SpecialistsInit ==
  /\ CacheIdle
  /\ RouteIdle /\ EscalateIdle /\ QAIdle /\ OrchIdle
  /\ completing = <<>>
  /\ updating = <<>>
  /\ detection = None
  /\ caching = [ slots |-> [c \in 1..MaxCachers |-> NoCaching], objs |-> <<>>,
                 current |-> 0, done |-> <<>> ]
  /\ searching = <<>>
  /\ thresholds = None
  /\ feedback = <<>>
  /\ usage = <<>>
  /\ usageLog = <<>>
  /\ inflight = <<>>
  /\ gate = None

\* the calls made so far
Cachings ==
  Len(caching.done) + Cardinality({c \in DOMAIN caching.slots : caching.slots[c].pc # "idle"})

\* a caller calls cacheSpecialistConsultation(consultation): the entry is
\* built and stored
BeginCaching(c) ==
  /\ caching.slots[c].pc = "idle"
  /\ Cachings < MaxCachings
  /\ \E consultation \in MeteredConsultations :
       /\ cache' = cacheStore(cache,
            cacheEntryOf(consultation, CacheKeys(MeteredTask, MeteredSpecialist), now))
       /\ caching' = [caching EXCEPT !.slots[c] =
            [pc |-> "stored", consultation |-> Some(consultation), held |-> 0]]
  /\ UNCHANGED specialistMetrics

\* updateSpecialistMetrics is called: getSpecialistMetrics reads the Map
ReadSpecialistMetrics(c) ==
  /\ caching.slots[c].pc = "stored"
  /\ caching' = [caching EXCEPT !.slots[c].pc = "read", !.slots[c].held = caching.current]
  /\ UNCHANGED <<cache, specialistMetrics>>

\* the object read, or a new one when there was none, is changed and handed
\* to updateSpecialistMetrics of the storage, which sets it in the Map
WriteSpecialistMetrics(c) ==
  /\ caching.slots[c].pc = "read"
  /\ LET held == caching.slots[c].held
         at == IF held = 0 THEN Len(caching.objs) + 1 ELSE held
         before == IF held = 0 THEN initializeSpecialistMetrics(now) ELSE caching.objs[held]
         after == countConsultation(before, Val(caching.slots[c].consultation), now)
     IN /\ caching' = [caching EXCEPT
             !.slots[c].pc = "written",
             !.objs = IF held = 0 THEN Append(@, after) ELSE [@ EXCEPT ![held] = after],
             !.current = at]
        /\ specialistMetrics' = (MeteredSpecialist :> after)
  /\ UNCHANGED cache

\* the call returns the cache entry
EndCaching(c) ==
  /\ caching.slots[c].pc = "written"
  /\ caching' = [caching EXCEPT !.slots[c] = NoCaching,
                                !.done = Append(@, Val(caching.slots[c].consultation))]
  /\ UNCHANGED <<cache, specialistMetrics>>

restOfSpecialists ==
  <<rvars, evars, qvars, ovars, now, events, cop, feedback, usage, usageLog, inflight,
    gate, completing, updating, detection, searching, thresholds>>

SpecialistsNext ==
  \/ \E c \in 1..MaxCachers : BeginCaching(c) /\ UNCHANGED restOfSpecialists
  \/ \E c \in 1..MaxCachers : ReadSpecialistMetrics(c) /\ UNCHANGED restOfSpecialists
  \/ \E c \in 1..MaxCachers : WriteSpecialistMetrics(c) /\ UNCHANGED restOfSpecialists
  \/ \E c \in 1..MaxCachers : EndCaching(c) /\ UNCHANGED restOfSpecialists

SpecSpecialists == SpecialistsInit /\ [][SpecialistsNext]_vars

------------------------------------------------------------------------------
(* The named-domain specification: TaskRouter.route applied to tasks that    *)
(* state their domain: domains the catalog lists for every tier, domains it  *)
(* lists for some tiers or for none, and domains whose name is that of a     *)
(* function every object inherits.                                           *)

DomainNames == {"data", "frontend", "email-marketing", "toString", "valueOf"}

DomainsInputs ==
  { [Merge(s, x) EXCEPT !.domain = Some(d)] :
      s \in ScopeProfiles, x \in TextProfiles, d \in DomainNames }

DomainsInit ==
  /\ task \in DomainsInputs
  /\ routing = None
  /\ rphase = "input"
  /\ RestOfRouteIdle

SpecDomains == DomainsInit /\ [][Route]_vars

------------------------------------------------------------------------------
(* The threshold specification: adjustComplexityThresholds called again and  *)
(* again, each call given the newThresholds of the call before.  Thresholds  *)
(* and adjustments are counted in halves.  analyzeThresholdPerformance and   *)
(* calculateThresholdAdjustment are defined nowhere in the source: the       *)
(* adjustment of a tier is a fixed step up, a fixed step down or none, the   *)
(* step of a call being one half or one.                                     *)

ThresholdScale == 2
MaxAdjustments == 3

ThresholdNames == {"direct", "tier1", "tier2", "tier3"}

\* the step sizes, in halves
StepSizes == {1, 2}

\* the thresholds of the analyzer, 3, 6 and 8, below the largest score
StartThresholds ==
  { [ direct |-> 3 * ThresholdScale, tier1 |-> 6 * ThresholdScale,
      tier2 |-> 8 * ThresholdScale, tier3 |-> 10 * ThresholdScale ] }

calculateThresholdAdjustment(step) == {0 - step, 0, step}

\* newThresholds of adjustComplexityThresholds, for the adjustments the
\* analysis led to
adjustComplexityThresholds(adjustments, currentThresholds) ==
  [ direct |-> Max(1 * ThresholdScale, currentThresholds.direct + adjustments.direct),
    tier1 |-> Max(currentThresholds.direct + 1 * ThresholdScale,
                  currentThresholds.tier1 + adjustments.tier1),
    tier2 |-> Max(currentThresholds.tier1 + 1 * ThresholdScale,
                  currentThresholds.tier2 + adjustments.tier2),
    tier3 |-> Max(currentThresholds.tier2 + 1 * ThresholdScale,
                  currentThresholds.tier3 + adjustments.tier3) ]

ThresholdsInit ==
  /\ \E start \in StartThresholds :
       thresholds = Some([ newThresholds |-> start,
                           adjustments |-> [k \in ThresholdNames |-> 0],
                           calls |-> 0, largestStep |-> 0 ])
  /\ Is(IdleState)
  /\ calls = 0
  /\ submitted = <<>>
  /\ contexts = <<>>
  /\ qaHidden = NoHidden
  /\ failureHidden = NoFailureHidden
  /\ cop = NoCall
  /\ completing = <<>>
  /\ updating = <<>>
  /\ detection = None
  /\ caching = <<>>
  /\ searching = <<>>
  /\ feedback = <<>>
  /\ usage = <<>>
  /\ usageLog = <<>>
  /\ inflight = <<>>
  /\ gate = None
  /\ RouteIdle /\ EscalateIdle /\ QAIdle

\* adjustComplexityThresholds(outcomes, the newThresholds of the call before)
AdjustThresholds ==
  /\ Val(thresholds).calls < MaxAdjustments
  /\ \E step \in StepSizes :
       \E adjustments \in [ThresholdNames -> calculateThresholdAdjustment(step)] :
         thresholds' =
           Some([ newThresholds |->
                    adjustComplexityThresholds(adjustments, Val(thresholds).newThresholds),
                  adjustments |-> adjustments,
                  calls |-> Val(thresholds).calls + 1,
                  largestStep |-> Max(step, Val(thresholds).largestStep) ])
  /\ UNCHANGED <<rvars, evars, qvars, cvars, ovars, feedback, usage, usageLog, inflight,
                 gate, completing, updating, detection, caching, searching>>

SpecThresholds == ThresholdsInit /\ [][AdjustThresholds]_vars

------------------------------------------------------------------------------
(* The retrieval specification: callers call getRelevantPatterns, their      *)
(* calls overlapping, while success patterns are stored.  A call runs search *)
(* up to the await, then sorts what search returned and returns.  The array  *)
(* search returns holds the pattern objects of the library: a caller holds   *)
(* them by their place in the library.                                       *)

MaxSearchers == 2
MaxSearches == 3
MaxSearchStores == 2

\* the tasks patterns are stored for
StoredTaskInputs ==
  { CacheTask(Some("integration"), Some(<<"rest">>), None, Some(4)),
    CacheTask(Some("integration"), None, None, Some(2)) }

\* the tasks patterns are looked up for
SearchTaskInputs ==
  { CacheTask(Some("integration"), Some(<<"rest">>), None, Some(4)),
    CacheTask(Some("integration"), None, None, Some(2)) }

SearchOutcome ==
  [ successful |-> TRUE, qualityScore |-> (9 * ScoreOne) \div 10,
    userSatisfaction |-> (9 * ScoreOne) \div 10 ]

NoSearch == [pc |-> "idle", task |-> None, held |-> <<>>, overlapped |-> FALSE]

\* PatternLibraryStorage.search, the scores it writes on the patterns
searchScores(lib, t) ==
  [i \in DOMAIN lib |-> [lib[i] EXCEPT !.relevanceScore = Some(relevanceOf(lib[i], t))]]

\* PatternLibraryStorage.search, the patterns it returns: those of a score of
\* 0.7 * 15 at least, in the order of the library
RECURSIVE searchFound(_, _)
searchFound(lib, i) ==
  IF i > Len(lib) THEN <<>>
  ELSE (IF 10 * Val(lib[i].relevanceScore) >= 105 THEN <<i>> ELSE <<>>)
       \o searchFound(lib, i + 1)

\* patterns.sort((a, b) => b.relevanceScore - a.relevanceScore) on the
\* patterns held, by the scores they carry now
RECURSIVE InsertHeld(_, _, _)
InsertHeld(lib, i, held) ==
  IF held = <<>> THEN <<i>>
  ELSE IF Val(lib[Head(held)].relevanceScore) > Val(lib[i].relevanceScore)
    THEN <<Head(held)>> \o InsertHeld(lib, i, Tail(held))
  ELSE <<i>> \o held

RECURSIVE sortHeld(_, _)
sortHeld(lib, held) ==
  IF held = <<>> THEN <<>>
  ELSE InsertHeld(lib, held[1], sortHeld(lib, Tail(held)))

SearchInit ==
  /\ searching = [slots |-> [c \in 1..MaxSearchers |-> NoSearch], done |-> <<>>]
  /\ Is(IdleState)
  /\ calls = 0
  /\ submitted = <<>>
  /\ contexts = <<>>
  /\ qaHidden = NoHidden
  /\ failureHidden = NoFailureHidden
  /\ cop = NoCall
  /\ completing = <<>>
  /\ updating = <<>>
  /\ detection = None
  /\ caching = <<>>
  /\ thresholds = None
  /\ feedback = <<>>
  /\ usage = <<>>
  /\ usageLog = <<>>
  /\ inflight = <<>>
  /\ gate = None
  /\ RouteIdle /\ EscalateIdle /\ QAIdle

\* the calls made so far
Searches ==
  Len(searching.done)
    + Cardinality({c \in DOMAIN searching.slots : searching.slots[c].pc # "idle"})

\* storeSuccessPattern(consultation, outcome) stores a pattern
StoreSearchedPattern ==
  /\ Len(patternLib) < MaxSearchStores
  /\ \E t \in StoredTaskInputs :
       patternLib' = storeSuccessPattern(patternLib,
         [specialist |-> MeteredSpecialist, task |-> t], SearchOutcome,
         getProjectContextVersion(contexts), nextPatternId, now)
  /\ nextPatternId' = nextPatternId + 1
  /\ UNCHANGED searching

\* a caller calls getRelevantPatterns(task): search scores every pattern of
\* the library and returns those that reach the threshold
BeginSearch(c) ==
  /\ searching.slots[c].pc = "idle"
  /\ Searches < MaxSearches
  /\ \E t \in SearchTaskInputs :
       /\ patternLib' = searchScores(patternLib, t)
       /\ searching' = [searching EXCEPT !.slots =
            [d \in DOMAIN @ |->
               IF d = c
                 THEN [ pc |-> "searched", task |-> Some(t),
                        held |-> searchFound(patternLib', 1), overlapped |-> FALSE ]
               ELSE IF @[d].pc = "searched" THEN [@[d] EXCEPT !.overlapped = TRUE]
               ELSE @[d]]]
  /\ UNCHANGED nextPatternId

\* the call goes on after the await: it sorts the patterns and returns them
EndSearch(c) ==
  /\ searching.slots[c].pc = "searched"
  /\ searching' = [searching EXCEPT
       !.slots[c] = NoSearch,
       !.done = Append(@, [ task |-> Val(searching.slots[c].task),
                            patterns |-> sortHeld(patternLib, searching.slots[c].held),
                            overlapped |-> searching.slots[c].overlapped ])]
  /\ UNCHANGED <<patternLib, nextPatternId>>

restOfSearch ==
  <<stack, ret, contexts, performanceMetrics, feedbackHistory, qaHidden, failureHidden,
    attempts, recoveries, qaCalls, calls, submitted, nextTaskId, cvars, rvars, evars,
    qvars, feedback, usage, usageLog, inflight, gate, completing, updating, detection,
    caching, thresholds>>

SearchNext ==
  \/ StoreSearchedPattern /\ UNCHANGED restOfSearch
  \/ \E c \in 1..MaxSearchers : BeginSearch(c) /\ UNCHANGED restOfSearch
  \/ \E c \in 1..MaxSearchers : EndSearch(c) /\ UNCHANGED restOfSearch

SpecSearch == SearchInit /\ [][SearchNext]_vars

------------------------------------------------------------------------------
(* The cache-key specification: consultations cached and retrieved for tasks *)
(* of one domain that differ in their technologies or in their complexity.   *)

\* a task, a task of another technology, an equivalent task of another
\* complexity in the same bucket, and the task in another bucket
KeyTaskInputs ==
  { CacheTask(Some("infrastructure"), Some(<<"k8s">>), None, Some(6)),
    CacheTask(Some("infrastructure"), Some(<<"ivs">>), None, Some(6)),
    CacheTask(Some("infrastructure"), Some(<<"k8s">>), None, Some(7)),
    CacheTask(Some("infrastructure"), Some(<<"k8s">>), None, Some(4)) }

KeyConsultationInputs ==
  { [ specialist |-> sp, task |-> t, recommendation |-> SynthesizedRecommendation,
      outcome |-> None, quality |-> QualityOf(sp) ] :
      sp \in CacheSpecialists, t \in KeyTaskInputs }

\* generateCacheKey over the inputs of this specification, computed once
KeyTable ==
  {<<x, generateCacheKey(x[1], x[2])>> : x \in KeyTaskInputs \X CacheSpecialists}

KeysOf(t, specialist) == (CHOOSE p \in KeyTable : p[1] = <<t, specialist>>)[2]

\* cacheSpecialistConsultation(consultation)
CacheKeyedConsultation ==
  /\ TotalConsultations < MaxConsultations
  /\ \E consultation \in KeyConsultationInputs :
       LET cacheKey == KeysOf(consultation.task, consultation.specialist)
           cacheEntry == cacheEntryOf(consultation, cacheKey, now)
       IN /\ cache' = cacheStore(cache, cacheEntry)
          /\ specialistMetrics' = updateSpecialistMetrics(specialistMetrics, consultation, now)
          /\ cop' = [ name |-> "cacheSpecialistConsultation", task |-> consultation.task,
                      specialist |-> consultation.specialist, returned |-> Some(cacheEntry) ]
  /\ UNCHANGED <<now, events, restOfCache>>

\* retrieveSpecialistCache(task, specialist)
RetrieveKeyed ==
  /\ Len(events) < MaxEvents
  /\ \E t \in KeyTaskInputs, sp \in CacheSpecialists :
       LET r == retrieveSpecialistCache(cache, events, KeysOf(t, sp), now)
       IN /\ cache' = r.cache
          /\ events' = r.events
          /\ cop' = [ name |-> "retrieveSpecialistCache", task |-> t,
                      specialist |-> sp, returned |-> r.returned ]
  /\ UNCHANGED <<now, specialistMetrics, restOfCache>>

KeysNext == CacheKeyedConsultation \/ RetrieveKeyed \/ Tick

SpecKeys == CacheInit /\ [][KeysNext]_vars

------------------------------------------------------------------------------
(* Claims about the analyzer and the router *)

Routed == rphase = "routed"
Analysis == Val(routing).complexity

C8_EnterpriseScenarioIsTier3 ==
  (Routed /\ task \in EnterpriseTasks) =>
    /\ Val(routing).tier = "TIER_3"
    /\ Len(Val(routing).qualityChecks) = 8
    /\ IsSome(Val(routing).specialist)
    /\ RegistryTier(Val(Val(routing).specialist)) = 3

------------------------------------------------------------------------------
(* Claims about tier escalation *)

TierIndex(t) == CHOOSE i \in 1..Len(Tiers) : Tiers[i] = t

\* C4: autoEscalateTier(t, failure) for t in DIRECT, TIER_1, TIER_2, TIER_3
\* returns canEscalate = true with escalation.from = t and escalation.to the
\* immediate successor of t in DIRECT -> TIER_1 -> TIER_2 -> TIER_3 -> EXTERNAL;
\* for t = EXTERNAL it returns canEscalate = false and no target tier.
C4_EscalatesToImmediateSuccessor ==
  IsSome(eresult) =>
    LET r == Val(eresult)
    IN IF etier = "EXTERNAL"
         THEN ~r.canEscalate /\ r.escalation = None
         ELSE /\ r.canEscalate
              /\ IsSome(r.escalation)
              /\ Val(r.escalation).from = etier
              /\ TierIndex(Val(r.escalation).to) = TierIndex(etier) + 1

\* an escalation from TIER_1 has been computed for a severe failure
C4_Witness ==
  /\ IsSome(eresult)
  /\ etier = "TIER_1"
  /\ Val(eresult).canEscalate
  /\ Val(Val(eresult).escalation).to = "TIER_2"
  /\ Val(Val(eresult).escalation).urgency = 5

------------------------------------------------------------------------------
(* Claims about quality validation *)

Validated == IsSome(qresult)

\* C5: validateSpecialistRecommendation returns passed = true exactly when each
\* of the six checks meets its own bar (expertise alignment >= 0.70,
\* recommendation quality >= 0.80, implementation viability >= 0.80, risk level
\* not high, consistency >= 0.90, security >= 0.95), whatever the weighted
\* overall score is.
C5_PassedIffEveryCheckMeetsItsBar ==
  Validated =>
    LET r == Val(qresult)
        c == r.checks
        bar(k, num, den) == c[k].score # NaN /\ den * c[k].score >= num * QScale
    IN r.passed <=>
         /\ bar("expertiseAlignment", 70, 100)
         /\ bar("recommendationQuality", 80, 100)
         /\ bar("implementationViability", 80, 100)
         /\ c.riskAssessment.riskLevel # "high"
         /\ bar("consistencyCheck", 90, 100)
         /\ bar("securityCheck", 95, 100)

\* a validation whose weighted score is at least 0.80 and which did not pass
\* because one check (security) is below its bar
C5_Witness ==
  /\ Validated
  /\ ~Val(qresult).passed
  /\ Val(qresult).score # NaN
  /\ 10 * Val(qresult).score >= 8 * WeightSum * QScale
  /\ ~Val(qresult).checks.securityCheck.passed
  /\ Val(qresult).checks.expertiseAlignment.passed
  /\ Val(qresult).checks.recommendationQuality.passed

------------------------------------------------------------------------------
(* Claims about the specialist cache *)

\* the step is a call of retrieveSpecialistCache
RetrieveStep == cop'.name = "retrieveSpecialistCache" /\ now' = now

IsPermutation(a, b) ==
  /\ Len(a) = Len(b)
  /\ \A x \in Range(a) \cup Range(b) :
       Cardinality({i \in 1..Len(a) : a[i] = x}) = Cardinality({i \in 1..Len(b) : b[i] = x})

SameArray(o1, o2) ==
  /\ IsSome(o1) = IsSome(o2)
  /\ IsSome(o1) => IsPermutation(Val(o1), Val(o2))

\* equivalent tasks: the same domain, the same technologies and the same
\* pattern tags in any order, complexity in the same even bucket
Equivalent(t1, t2) ==
  /\ t1.domain = t2.domain
  /\ SameArray(t1.technologies, t2.technologies)
  /\ SameArray(t1.patterns, t2.patterns)
  /\ IsSome(t1.complexity) = IsSome(t2.complexity)
  /\ IsSome(t1.complexity) => Val(t1.complexity) \div 2 = Val(t2.complexity) \div 2

\* C9: cache round-trip.  When the cache holds the entry stored for specialist
\* S and task T and its expiration time has not been reached,
\* retrieveSpecialistCache(T', S) returns that entry for every task T'
\* equivalent to T.
C9_EquivalentTaskHits ==
  [][ RetrieveStep =>
        \A k \in DOMAIN cache :
          ( /\ cache[k].specialist = cop'.specialist
            /\ Equivalent(cache[k].task, cop'.task)
            /\ now < cache[k].expirationTime )
          => cop'.returned = Some(cache[k]) ]_vars

\* a retrieval returned an entry stored for a task that lists its technologies
\* in another order and has another complexity
C9_Witness ==
  /\ cop.name = "retrieveSpecialistCache"
  /\ IsSome(cop.returned)
  /\ Val(cop.returned).task.complexity # cop.task.complexity
  /\ Val(cop.returned).task.technologies # cop.task.technologies
  /\ Val(cop.returned).specialist = cop.specialist

\* C10: cache expiry is lazy and exact.  retrieveSpecialistCache on an entry
\* whose expiration time has passed returns null, removes the entry and records
\* no cache hit; on an entry whose expiration time has not passed it returns
\* the entry, which stays in the store.
C10_LazyExactExpiry ==
  [][ RetrieveStep =>
        LET k == CacheKeys(cop'.task, cop'.specialist)
        IN k \in DOMAIN cache =>
             IF now > cache[k].expirationTime
               THEN /\ cop'.returned = None
                    /\ k \notin DOMAIN cache'
                    /\ events' = events
               ELSE /\ cop'.returned = Some(cache[k])
                    /\ k \in DOMAIN cache'
                    /\ cache'[k] = cache[k] ]_vars

\* the one consultation cached so far has been evicted by a retrieval that
\* returned null, and no cache hit was ever recorded
C10_Witness ==
  /\ cop.name = "retrieveSpecialistCache"
  /\ cop.returned = None
  /\ TotalConsultations = 1
  /\ cache = <<>>
  /\ events = <<>>

------------------------------------------------------------------------------
(* Claims about the orchestrator *)

\* the processTask call on top of the stack runs in this step
Runs == stack # <<>> /\ Top.pc = "run" /\ nextTaskId' # nextTaskId

LastAttempt == attempts[Len(attempts)]

\* the escalation re-invocations made for the caller's current call
Escalations == {i \in DOMAIN attempts : attempts[i].via = "escalation"}

\* C1: the chain of nested escalation re-invocations one processTask call
\* starts has length at most 4, also when the quality gate asks for an
\* escalation on every attempt.
C1_EscalationChainAtMostFour == Cardinality(Escalations) <= 4

\* C2: for one failing processTask call executeRecoveryStrategy runs at most
\* once in total, the nested processTask of a retry or simplify included.
C2_RecoveryAtMostOnce == recoveries <= 1

\* C3: the attempt an escalation re-invokes is analysed at the tier that
\* immediately follows the tier of the attempt whose quality gate failed.
C3_EscalatedAttemptAtNextTier ==
  \A i \in Escalations :
    TierIndex(attempts[i].tier) = TierIndex(attempts[i - 1].tier) + 1

SecondCallReturned == stack = <<>> /\ IsSome(ret) /\ Len(submitted) = 2

SameTaskAgain ==
  /\ submitted[2].task = submitted[1].task
  /\ submitted[2].options = NoOptions

\* the second call is made before the entry of the first would expire
WithinTTL ==
  ~isCacheExpired(
     [expirationTime |-> calculateExpiration(submitted[1].task, submitted[1].at)],
     submitted[2].at)

MarkedCached(outcome) ==
  IsSome(outcome.metadata) /\ Val(outcome.metadata).cached = Some(TRUE)

\* the first call went through a specialist consultation that was stored: its
\* metrics entry is that of a success at a tier other than DIRECT
FirstCallConsulted ==
  /\ performanceMetrics # <<>>
  /\ performanceMetrics[1].taskId = generateTaskId(1)
  /\ performanceMetrics[1].success
  /\ performanceMetrics[1].tier # Some("DIRECT")

\* C11 as stated: an identical task submitted twice, the second time within the
\* TTL of the first, gets a second Outcome whose metadata is marked cached:true,
\* and the second call runs neither the consultation nor the quality gate.
C11_SecondIdenticalCallIsCached ==
  (SecondCallReturned /\ SameTaskAgain /\ WithinTTL) =>
    MarkedCached(Val(ret)) /\ qaCalls = 0

\* C11, amended: when the first call of a task completed a specialist
\* consultation that was stored (tier other than DIRECT, no escalation, no
\* exception) and the same task is submitted again with the cache in use within
\* the TTL of the first, the second Outcome's metadata is marked cached:true and
\* the second call is a single attempt that runs neither the consultation nor
\* the quality gate.
C11_SecondCallCachedAfterConsultation ==
  (SecondCallReturned /\ SameTaskAgain /\ WithinTTL /\ FirstCallConsulted) =>
    /\ MarkedCached(Val(ret))
    /\ Val(ret).success
    /\ qaCalls = 0
    /\ Len(attempts) = 1
    /\ recoveries = 0

\* the second call of a consulted task, made later than the first and within
\* its TTL, has returned the cached result
C11_Witness ==
  /\ SecondCallReturned /\ SameTaskAgain /\ WithinTTL /\ FirstCallConsulted
  /\ submitted[2].at > submitted[1].at
  /\ MarkedCached(Val(ret))

\* C12: every entry of the consultation cache belongs to a consultation whose
\* quality validation passed; a consultation whose validation did not pass is
\* never cached and never stored as a pattern.
C12_OnlyValidatedConsultationsStored ==
  \A k \in DOMAIN cache :
    IsSome(cache[k].quality) /\ Val(cache[k].quality).passed

\* the step pushes the call of a further escalation
EscalatesFurther ==
  /\ Len(stack') = Len(stack) + 1
  /\ stack'[Len(stack')].via = "escalation"

\* the step pushes the call of a recovery
RecoversFurther ==
  /\ Len(stack') = Len(stack) + 1
  /\ stack'[Len(stack')].via = "recovery"

\* C16: escalation exhaustion is surfaced.  Four escalations lead from any
\* tier to EXTERNAL; when the quality gate fails with escalationNeeded for the
\* attempt the fourth escalation of a chain has re-invoked, processTask
\* escalates no further and returns an Outcome with success = false that
\* carries the quality issues.
C16_ExhaustionIsSurfaced ==
  [][ (Runs /\ Cardinality(Escalations') >= 4 /\ qaCalls' = qaCalls + 1)
        => /\ ~EscalatesFurther
           /\ (IsSome(ret') /\ ~Val(ret').success) => IsSome(Val(ret').qualityIssues) ]_vars

\* the consultation of the running call throws: a pattern without a task is
\* in the library, the task is not DIRECT and is not served from the cache
ConsultationThrows ==
  /\ Runs
  /\ \E i \in DOMAIN patternLib : ~IsSome(patternLib[i].task)
  /\ attempts'[Len(attempts')].tier # "DIRECT"
  /\ ~(IsSome(ret') /\ MarkedCached(Val(ret')))

CarriesFailureReport(outcome) ==
  /\ IsSome(outcome.failureAnalysis)
  /\ "severity" \in DOMAIN Val(outcome.failureAnalysis)
  /\ "failureTypes" \in DOMAIN Val(outcome.failureAnalysis)
  /\ IsSome(outcome.recoveryAttempted)

LastFeedback == feedback[Len(feedback)]

HasMetrics(taskId) == \E i \in DOMAIN performanceMetrics : performanceMetrics[i].taskId = taskId

\* C15: processFeedback(taskId, feedback) with a taskId that has no entry in
\* the performance metrics fails with a not-found error and changes nothing:
\* no metric entry is created or modified and no learning event is recorded.
C15_UnknownTaskFeedbackChangesNothing ==
  [][ (feedback' # feedback /\ ~HasMetrics(LastFeedback'.taskId))
        => /\ LastFeedback'.thrown = Some(NotFoundMessage(LastFeedback'.taskId))
           /\ LastFeedback'.returned = None
           /\ performanceMetrics' = performanceMetrics
           /\ feedbackHistory' = feedbackHistory ]_vars

\* a dissatisfied feedback for a task id without metrics has been refused
\* while other tasks have metrics
C15_Witness ==
  /\ feedback # <<>>
  /\ IsSome(LastFeedback.thrown)
  /\ Dissatisfied(LastFeedback.feedback)
  /\ performanceMetrics # <<>>
  /\ ~HasMetrics(LastFeedback.taskId)

------------------------------------------------------------------------------
(* Further claims about the quality gate *)

LacksTimelineAndResources(rec) == ~Truthy(rec.timeline) /\ ~Truthy(rec.resources)

\* C14: for every recommendation that lacks both timeline and resources the
\* viability sub-checks for the resources and for the timeline both fail, and
\* validateSpecialistRecommendation returns passed = false whatever the other
\* five checks yield.
C14_MissingTimelineAndResourcesFail ==
  (Validated /\ LacksTimelineAndResources(qrec)) =>
    /\ ~Val(qresult).checks.implementationViability.checks[1].passed
    /\ ~Val(qresult).checks.implementationViability.checks[2].passed
    /\ ~Val(qresult).passed

------------------------------------------------------------------------------
(* Claims about pattern usage *)

\* the pattern processTask stored for the first task
FreshPatternId == generatePatternId(1)

StoredPattern(patternId) ==
  patternLib[CHOOSE i \in DOMAIN patternLib : patternLib[i].id = patternId]

\* the outcomes updatePatternUsage has applied to a pattern: those of the calls
\* that returned, and those of the calls waiting for update to return
ReturnedOutcomes(patternId) ==
  SelectSeq(usageLog, LAMBDA e : e.patternId = patternId /\ e.applied)

WaitingCallers(patternId) ==
  {c \in DOMAIN usage : usage[c].pc = "updated" /\ usage[c].patternId = patternId}

Reuses(patternId) == Len(ReturnedOutcomes(patternId)) + Cardinality(WaitingCallers(patternId))

Successes(patternId) ==
  Len(SelectSeq(ReturnedOutcomes(patternId), LAMBDA e : e.successful))
  + Cardinality({c \in WaitingCallers(patternId) : Val(usage[c].outcome).successful})

RECURSIVE SequentialRate(_, _, _)
SequentialRate(rate, usageCount, outcomes) ==
  IF outcomes = <<>> THEN rate
  ELSE SequentialRate(nextSuccessRate(rate, usageCount + 1, Head(outcomes)),
                      usageCount + 1, Tail(outcomes))

\* the orders in which k successes and n - k failures can be applied
Orders(n, k) ==
  {o \in [1..n -> BOOLEAN] : Cardinality({i \in 1..n : o[i]}) = k}

\* C20: overlapping updatePatternUsage calls on one pattern id lose no update:
\* after m calls usageCount has grown by exactly m, and successRate is the
\* value some sequential execution of the same m outcomes yields.
C20_NoLostUpdate ==
  LET pattern == StoredPattern(FreshPatternId)
      m == Len(ReturnedOutcomes(FreshPatternId))
      k == Len(SelectSeq(ReturnedOutcomes(FreshPatternId), LAMBDA e : e.successful))
  IN (\A c \in DOMAIN usage : usage[c].pc = "idle")
       => /\ Val(pattern.usageCount) = 1 + m
          /\ \E o \in Orders(m, k) :
               Val(pattern.successRate) = SequentialRate(<<1, 1>>, 1, o)

\* two calls on the fresh pattern overlapped and both have returned
C20_Witness ==
  /\ \A c \in DOMAIN usage : usage[c].pc = "idle"
  /\ \E i, j \in DOMAIN usageLog :
       /\ i < j
       /\ usageLog[i].patternId = FreshPatternId /\ usageLog[i].applied
       /\ usageLog[j].patternId = FreshPatternId /\ usageLog[j].applied
       /\ usageLog[j].overlapped

------------------------------------------------------------------------------
(* Claims about overlapping calls *)

\* C19: at most one consultation per fingerprint is in progress at any time:
\* two overlapping processTask calls whose tasks have the same specialist and
\* fingerprint never both execute the specialist consultation and the quality
\* gate, the cache check and the cache write behaving as one atomic step.
\* Calls made with useCache: false, which skip the cache, are left aside.
C19_OneConsultationPerFingerprint ==
  \A i, j \in DOMAIN inflight.consulted :
    ( /\ inflight.consulted[i].call # inflight.consulted[j].call
      /\ inflight.consulted[i].useCache /\ inflight.consulted[j].useCache
      /\ inflight.consulted[i].specialist = inflight.consulted[j].specialist
      /\ inflight.consulted[i].cacheKey = inflight.consulted[j].cacheKey )
      => {inflight.consulted[i].call, inflight.consulted[j].call} \notin inflight.overlap

------------------------------------------------------------------------------
(* Claims about the metrics history *)

MetricsIds(pm) == {pm[i].taskId : i \in DOMAIN pm}

\* the history after the entry last has been added to pm
Inserted(pm, last) == Append(pm, last)

\* C21: after any interleaving of task completions the metrics history holds
\* at most 1000 entries once an update has finished; an insert that makes it
\* exceed 1000 cuts it to exactly the 500 entries inserted last, the entry
\* just inserted is always retained, and no insert is lost to a trim.
C21_MetricsHistoryBounded ==
  /\ [](Len(performanceMetrics) <= MetricsLimit)
  /\ [][ performanceMetrics' # performanceMetrics =>
           /\ performanceMetrics' # <<>>
           /\ performanceMetrics'[Len(performanceMetrics')].taskId
                \notin MetricsIds(performanceMetrics)
           /\ \E c \in DOMAIN completing :
                performanceMetrics'[Len(performanceMetrics')].taskId = completing[c].taskId
           /\ IF Len(performanceMetrics) + 1 > MetricsLimit
                THEN /\ Len(performanceMetrics') = MetricsKeep
                     /\ performanceMetrics' =
                          SubSeq(Inserted(performanceMetrics,
                                          performanceMetrics'[Len(performanceMetrics')]),
                                 Len(performanceMetrics) + 2 - MetricsKeep,
                                 Len(performanceMetrics) + 1)
                ELSE performanceMetrics' =
                       Inserted(performanceMetrics,
                                performanceMetrics'[Len(performanceMetrics')]) ]_vars

\* the call that started second completed first and its insert trimmed the
\* full history; the call that started first has recorded its metrics after it
C21_Witness ==
  /\ Len(performanceMetrics) = MetricsKeep + 1
  /\ performanceMetrics[1].taskId = generateTaskId(MetricsLimit - MetricsKeep + 2)
  /\ performanceMetrics[MetricsKeep].taskId = generateTaskId(MetricsLimit + 2)
  /\ performanceMetrics[MetricsKeep + 1].taskId = generateTaskId(MetricsLimit + 1)

------------------------------------------------------------------------------
(* Claims about the project context *)

\* C22: project-context snapshots are append-only and monotonically versioned:
\* every updateProjectContext call adds exactly one snapshot, whose version is
\* one greater than the previous current version, and no earlier snapshot is
\* overwritten or removed, also when two calls are interleaved.
C22_SnapshotsAppendOnly ==
  [][ updating'.currentVersion # updating.currentVersion \/ contexts' # contexts =>
        /\ Len(contexts') = Len(contexts) + 1
        /\ SubSeq(contexts', 1, Len(contexts)) = contexts
        /\ contexts'[Len(contexts')].version = updating.currentVersion + 1
        /\ updating'.currentVersion = updating.currentVersion + 1 ]_vars

------------------------------------------------------------------------------
(* Claims about the task object *)

\* the task object of the caller's call as the call holds it, and as the
\* caller handed it in
CallersTaskNow == {attempts[i].task : i \in {j \in DOMAIN attempts : attempts[j].via = "submit"}}

CallersTaskGiven == submitted[Len(submitted)].task

\* C23: the task is an immutable input: processTask, retrieveSpecialistCache,
\* cacheSpecialistConsultation and storeSuccessPattern leave the caller's task
\* object unchanged, the order of its technologies and patterns included.
C23_TaskIsImmutable ==
  submitted # <<>> => \A t \in CallersTaskNow : t = CallersTaskGiven

------------------------------------------------------------------------------
(* Claims about the cache TTL *)

CacheEntries == {cache[k] : k \in DOMAIN cache}

\* the entries cached for a task with a complexity hint
HintedEntries == {e \in CacheEntries : IsSome(e.task.complexity)}

TTL(entry) == entry.expirationTime - entry.timestamp

\* C24: the cache TTL assigned by calculateExpiration equals
\* baseTTL * min(complexity / 5, 2) and is monotonic in the task's complexity:
\* for complexity hints 0 <= c1 <= c2, TTL(c1) <= TTL(c2), and the TTL never
\* exceeds 2 * baseTTL.
C24_TTLMonotonic ==
  /\ \A e \in HintedEntries :
       /\ 5 * TTL(e) = baseExpiration * Min(Val(e.task.complexity), 10)
       /\ TTL(e) <= 2 * baseExpiration
  /\ \A e1, e2 \in HintedEntries :
       Val(e1.task.complexity) <= Val(e2.task.complexity) => TTL(e1) <= TTL(e2)

------------------------------------------------------------------------------
(* Claims about the pattern library *)

\* a number of patterns the library is to hold at most
PatternBound == 3

\* C25: the pattern library is bounded: after any sequence of
\* storeSuccessPattern and updateProjectContext calls it holds at most a fixed
\* number N of patterns, the most recent ones.  The code names no N; the
\* formula takes N = PatternBound, and any other N fails after N + 1 stores.
C25_LibraryBounded == Len(patternLib) <= PatternBound

------------------------------------------------------------------------------
(* Claims about the escalation flag of the quality gate *)

\* the weighted overall score of the validation is below 0.60
ScoreBelowSixty == Lt(Val(qresult).score, (6 * ScoreOne) \div 10)

CriticalCheckFailed ==
  \/ ~Val(qresult).checks.securityCheck.passed
  \/ ~Val(qresult).checks.riskAssessment.passed

OtherCheckFailed ==
  \E k \in Range(CheckNames) \ {"securityCheck", "riskAssessment"} :
    ~Val(qresult).checks[k].passed

\* C26: validateSpecialistRecommendation sets escalationNeeded exactly when
\* the security check failed, or the risk check failed, or the weighted
\* overall score is below 0.60; a failure of any of the other four checks
\* alone, with an overall score of at least 0.60, does not set it.
C26_EscalationNeededExactly ==
  Validated =>
    /\ Val(qresult).escalationNeeded <=> (CriticalCheckFailed \/ ScoreBelowSixty)
    /\ (OtherCheckFailed /\ ~CriticalCheckFailed /\ ~ScoreBelowSixty)
         => ~Val(qresult).escalationNeeded

\* one of the other four checks failed alone, the score being at least 0.60
C26_Witness ==
  /\ Validated
  /\ OtherCheckFailed /\ ~CriticalCheckFailed /\ ~ScoreBelowSixty
  /\ ~Val(qresult).passed
  /\ ~Val(qresult).escalationNeeded

------------------------------------------------------------------------------
(* Claims about the failure detection *)

Detected == IsSome(detection) /\ IsSome(Val(detection).result)

\* the bucket values the detectors of the detection reported
DetectorScores ==
  { severityScores(Val(Val(detection).result).detectionResults[k].severity) :
      k \in Range(DetectorNames) }

\* C27: detectImplementationFailure reports a severity equal to the maximum
\* (not the sum) of the detectors' bucket values (none 0, low 2, medium 5,
\* high 8, critical 10), so severity is one of {0, 2, 5, 8, 10}, and
\* escalationNeeded is true exactly when that maximum is at least 8.
C27_SeverityIsMaximum ==
  Detected =>
    /\ Val(Val(detection).result).severity \in DetectorScores
    /\ \A x \in DetectorScores : x <= Val(Val(detection).result).severity
    /\ Val(Val(detection).result).severity \in {0, 2, 5, 8, 10}
    /\ Val(Val(detection).result).escalationNeeded
         <=> Val(Val(detection).result).severity >= 8

\* two detectors report medium: the buckets add up to 10 and the severity is 5
C27_Witness ==
  /\ Detected
  /\ Cardinality({k \in Range(DetectorNames) :
       Val(Val(detection).result).detectionResults[k].severity = "medium"}) = 2
  /\ Val(Val(detection).result).severity = 5
  /\ ~Val(Val(detection).result).escalationNeeded

------------------------------------------------------------------------------
(* Specialist selection *)

Candidates == getSpecialistsForDomain(identifyDomain(task), Analysis.tier)
CandidateScore(i) == calculateSpecialistScore(Candidates[i], task, Analysis)
Selected == Val(routing).specialist

\* C28: selectBestSpecialist returns null for an empty candidate list, and
\* otherwise a candidate whose score is maximal and that comes first, in
\* catalog order, among the candidates with that score.
C28_SelectionIsDeterministic ==
  Routed =>
    IF Candidates = <<>> THEN Selected = None
    ELSE \E i \in 1..Len(Candidates) :
           /\ Selected = Some(Candidates[i])
           /\ \A j \in 1..Len(Candidates) :
                /\ CandidateScore(i) >= CandidateScore(j)
                /\ CandidateScore(i) = CandidateScore(j) => i <= j

\* two candidates with equal scores: the first in catalog order is selected
C28_Witness ==
  /\ Routed
  /\ Len(Candidates) = 2
  /\ CandidateScore(1) = CandidateScore(2)
  /\ Selected = Some(Candidates[1])

\* two candidates, the second with the higher score, is selected
C28_SecondWins ==
  /\ Routed
  /\ Len(Candidates) = 2
  /\ CandidateScore(2) > CandidateScore(1)
  /\ Selected = Some(Candidates[2])

\* a task whose tier has no candidates gets no specialist
C28_NoCandidate == Routed /\ Candidates = <<>> /\ Selected = None

------------------------------------------------------------------------------
(* Recovery strategies of an unknown type *)

\* the recovery recommended for a failure is neither a retry nor a simplify
UnknownStrategy ==
  /\ IsSome(failureHidden.strategy)
  /\ Val(failureHidden.strategy).type \notin {"retry", "simplify"}

LastMetric(pm) == pm[Len(pm)]

------------------------------------------------------------------------------
(* Cache hits in the analytics log *)

\* the cache_hit events of an analytics log
CacheHitEvents(ev) == {i \in DOMAIN ev : ev[i].type = "cache_hit"}

\* the step of a processTask call records a cache_hit event
RecordsCacheHit == CacheHitEvents(events') # CacheHitEvents(events)

\* the step of a processTask call returns a cached result
ReturnsCached == IsSome(ret') /\ MarkedCached(Val(ret'))

\* C30: a cache_hit analytics event is recorded exactly when processTask
\* returns a cached result; a call that executes the task afresh, every call
\* with options.useCache = false included, returns no cached result and
\* records no cache_hit event.
C30_CacheHitExactlyWhenCached ==
  [][ Runs => /\ RecordsCacheHit <=> ReturnsCached
              /\ ~Top.options.useCache => ~ReturnsCached /\ ~RecordsCacheHit ]_vars

------------------------------------------------------------------------------
(* The shape of the patterns in the library *)

\* the task of a pattern is one normalizeTask returns: sorted lists and an
\* even complexity
NormalizedShape(pt) ==
  /\ DOMAIN pt = {"domain", "technologies", "complexity", "patterns", "requirements"}
  /\ pt.technologies = Sort(pt.technologies)
  /\ pt.patterns = Sort(pt.patterns)
  /\ pt.requirements = Sort(pt.requirements)
  /\ pt.complexity % 2 = 0

\* a rate n/d lies in [0, 1]
RateInUnit(rate) == rate[2] > 0 /\ rate[1] >= 0 /\ rate[1] <= rate[2]

WellFormedPattern(p) ==
  /\ IsSome(p.task) /\ NormalizedShape(Val(p.task))
  /\ IsSome(p.usageCount) /\ Val(p.usageCount) >= 1
  /\ IsSome(p.successRate) /\ RateInUnit(Val(p.successRate))

LastOp == usageLog[Len(usageLog)]

\* C31: every pattern in the library, stored by storeSuccessPattern or
\* extracted from decisions by updateProjectContext, has a normalized task,
\* usageCount >= 1 and successRate in [0, 1] after any sequence of
\* updateProjectContext, storeSuccessPattern and updatePatternUsage calls, and
\* storeSuccessPattern with an unsuccessful outcome leaves the library unchanged.
C31_PatternsWellFormed ==
  /\ [](\A i \in DOMAIN patternLib : WellFormedPattern(patternLib[i]))
  /\ [][ (usageLog' # usageLog /\ LastOp'.op = "storeSuccessPattern"
          /\ ~LastOp'.successful) => patternLib' = patternLib ]_vars

\* the patterns storeSuccessPattern stored are well formed, also after reuses
C31_StoredPatternsWellFormed ==
  \A i \in DOMAIN patternLib :
    IsSome(patternLib[i].specialist) => WellFormedPattern(patternLib[i])

\* a stored pattern has been reused without success
C31_StoredPatternReused ==
  \E i \in DOMAIN patternLib :
    /\ IsSome(patternLib[i].specialist)
    /\ Val(patternLib[i].usageCount) = 2
    /\ Val(patternLib[i].successRate) = <<1, 2>>

------------------------------------------------------------------------------
(* The per-specialist metrics *)

RECURSIVE SumOfScores(_)
SumOfScores(cs) ==
  IF cs = <<>> THEN 0
  ELSE Val(Head(cs).quality).score + SumOfScores(Tail(cs))

SuccessfulOf(cs) ==
  Cardinality({i \in DOMAIN cs : IsSome(cs[i].outcome) /\ Val(cs[i].outcome).successful})

NoCachingInProgress == \A c \in DOMAIN caching.slots : caching.slots[c].pc = "idle"

\* the metrics of the specialist count the consultations cs: the total, the
\* successful ones, and the mean of the quality scores (held as their sum)
Counts(metrics, cs) ==
  /\ metrics.totalConsultations = Len(cs)
  /\ metrics.successfulConsultations = SuccessfulOf(cs)
  /\ metrics.qualityScoreSum = SumOfScores(cs)

\* C32: per-specialist metrics count every consultation: after any
\* interleaving of cacheSpecialistConsultation calls for a specialist,
\* totalConsultations equals the number of completed calls,
\* successfulConsultations the number of those that were successful and
\* averageQualityScore the mean of their quality scores.
C32_MetricsCountEveryConsultation ==
  (caching # <<>> /\ NoCachingInProgress /\ caching.done # <<>>)
    => Counts(specialistMetrics[MeteredSpecialist], caching.done)

------------------------------------------------------------------------------
(* The tier of the routed specialist *)

RoutedTier == Val(routing).tier

\* C33: for every task, route returns specialist = null exactly when the tier
\* is DIRECT; for tier TIER_k it returns a specialist the SpecialistRegistry
\* lists with tier k, whatever the explicit or inferred domain: a domain
\* without an entry for the tier falls back to the tier's general list.
C33_SpecialistOfTheTier ==
  Routed =>
    /\ Selected = None <=> RoutedTier = "DIRECT"
    /\ \A k \in 1..3 :
         RoutedTier = Tiers[k + 1]
           => IsSome(Selected) /\ RegistryTier(Val(Selected)) = k

\* a task whose domain has no entry at its tier is routed to a specialist of
\* the tier's general list
C33_FallsBackToGeneral ==
  /\ Routed
  /\ RoutedTier # "DIRECT"
  /\ specialistMapping(RoutedTier, identifyDomain(task)) = <<>>
  /\ IsSome(Selected)
  /\ Val(Selected) \in Range(specialistMapping(RoutedTier, "general"))

\* the tasks whose domain does not name an inherited function get a
\* specialist of their tier
C33_ListedDomainsGetSpecialist ==
  (Routed /\ identifyDomain(task) \notin inheritedFunctions)
    => /\ Selected = None <=> RoutedTier = "DIRECT"
       /\ \A k \in 1..3 :
            RoutedTier = Tiers[k + 1]
              => IsSome(Selected) /\ RegistryTier(Val(Selected)) = k

------------------------------------------------------------------------------
(* A passed validation is never escalated *)

\* C34: for every combination of the six check results, passed = true implies
\* escalationNeeded = false: when every check meets its own bar, the security
\* and the risk check have passed and the weighted overall score is at least
\* 0.60.
C34_PassedNeverEscalates ==
  (Validated /\ Val(qresult).passed)
    => /\ ~Val(qresult).escalationNeeded
       /\ ~CriticalCheckFailed
       /\ Ge(Val(qresult).score, (6 * ScoreOne) \div 10)

\* a validation that passed with a risk score short of 1.0
C34_Witness ==
  /\ Validated
  /\ Val(qresult).passed
  /\ Val(qresult).checks.riskAssessment.score < QScale
  /\ ~Val(qresult).escalationNeeded

------------------------------------------------------------------------------
(* Success and the quality validation *)

\* the Outcome of a consultation that was executed, not served from the cache
FreshConsultationOutcome(outcome) ==
  /\ IsSome(outcome.metadata)
  /\ Val(outcome.metadata).cacheUsed = Some(FALSE)
  /\ Val(Val(outcome.metadata).complexity).tier # "DIRECT"

\* C35: processTask reports success = true for a freshly executed (not
\* cached) task of a tier other than DIRECT only if the quality validation of
\* its consultation returned passed = true; a consultation with passed = false
\* is never reported as a success, whether or not escalationNeeded is set.
C35_SuccessOnlyWhenPassed ==
  (IsSome(ret) /\ Val(ret).success /\ FreshConsultationOutcome(Val(ret)))
    => /\ IsSome(Val(Val(ret).metadata).quality)
       /\ Val(Val(Val(ret).metadata).quality).passed

------------------------------------------------------------------------------
(* Feedback for a returned Outcome *)

\* the caller's processTask call has returned
CallReturned == stack = <<>> /\ IsSome(ret)

\* C36: every Outcome processTask returns to its caller (fresh success, cache
\* hit, recovered run, terminal failure, exhausted escalation) carries a taskId
\* for which a performance-metrics entry exists, so that a processFeedback
\* call with that taskId made directly afterwards does not fail with
\* not-found.
C36_ReturnedTaskIdHasMetrics ==
  CallReturned => (IsSome(Val(ret).taskId) /\ HasMetrics(Val(Val(ret).taskId)))

\* the Outcomes that are not cache hits and do carry a taskId have a
\* performance-metrics entry
C36_RecordedUnlessCached ==
  (CallReturned /\ ~MarkedCached(Val(ret)) /\ IsSome(Val(ret).taskId))
    => HasMetrics(Val(Val(ret).taskId))

\* a cache hit has been returned
C36_CacheHitReturned == CallReturned /\ MarkedCached(Val(ret))

------------------------------------------------------------------------------
(* The order of the tier thresholds *)

OrderedThresholds(t) ==
  /\ 1 * ThresholdScale <= t.direct
  /\ t.direct < t.tier1
  /\ t.tier1 < t.tier2
  /\ t.tier2 < t.tier3

\* C37: threshold adjustment keeps the tier thresholds ordered: starting from
\* 1 <= direct < tier1 < tier2 < tier3, after any sequence of
\* adjustComplexityThresholds calls, each given the newThresholds of the call
\* before, with any fixed-step adjustments, newThresholds still satisfies
\* 1 <= direct < tier1 < tier2 < tier3.
C37_ThresholdsStayOrdered ==
  IsSome(thresholds) => OrderedThresholds(Val(thresholds).newThresholds)

\* the order is kept as long as every step is smaller than 1
C37_OrderedUnderSmallSteps ==
  (IsSome(thresholds) /\ Val(thresholds).largestStep < ThresholdScale)
    => OrderedThresholds(Val(thresholds).newThresholds)

\* half steps have brought the direct threshold up and the tier-1 threshold
\* down to the bound the call sets for it
C37_SmallStepsMeetBound ==
  /\ IsSome(thresholds)
  /\ Val(thresholds).calls = MaxAdjustments
  /\ Val(thresholds).largestStep < ThresholdScale
  /\ Val(thresholds).adjustments.direct > 0
  /\ Val(thresholds).adjustments.tier1 < 0
  /\ Val(thresholds).newThresholds.tier1 > Val(thresholds).newThresholds.direct
  /\ Val(thresholds).newThresholds.tier1
       < Val(thresholds).newThresholds.direct + 1 * ThresholdScale

------------------------------------------------------------------------------
(* The order of the patterns retrieved *)

\* the patterns are in the order of falling relevance to the task t
ByFallingRelevance(patterns, t) ==
  \A i, j \in DOMAIN patterns :
    i < j => relevanceOf(patternLib[patterns[i]], t) >= relevanceOf(patternLib[patterns[j]], t)

\* C38: pattern retrieval of concurrent tasks is independent: the patterns
\* getRelevantPatterns(A) returns are ordered by descending relevance to task
\* A, also when a getRelevantPatterns(B) call for another task runs
\* interleaved on the same pattern library.
C38_RetrievedByRelevanceToOwnTask ==
  searching # <<>> =>
    \A k \in DOMAIN searching.done :
      ByFallingRelevance(searching.done[k].patterns, searching.done[k].task)

\* the calls no other call's search ran into return the patterns by falling
\* relevance to their own task
C38_OrderedWhenAlone ==
  searching # <<>> =>
    \A k \in DOMAIN searching.done :
      ~searching.done[k].overlapped
        => ByFallingRelevance(searching.done[k].patterns, searching.done[k].task)

\* a call that ran alone has returned two patterns of different relevance
C38_TwoReturnedAlone ==
  /\ searching # <<>>
  /\ \E k \in DOMAIN searching.done :
       /\ ~searching.done[k].overlapped
       /\ Len(searching.done[k].patterns) = 2
       /\ relevanceOf(patternLib[searching.done[k].patterns[1]], searching.done[k].task)
            > relevanceOf(patternLib[searching.done[k].patterns[2]], searching.done[k].task)
       /\ searching.done[k].patterns[1] > searching.done[k].patterns[2]

------------------------------------------------------------------------------
(* The recoveryAttempted flag *)

\* the step ends with handleTaskFailure of the call on top of the stack
\* returning the failure Outcome of that call
ReportsOwnFailure ==
  /\ stack # <<>>
  /\ Len(stack') = Len(stack) - 1
  /\ IsSome(ret')
  /\ ~Val(ret').success
  /\ IsSome(Val(ret').recoveryAttempted)
  /\ Val(ret').taskId =
       Some(IF Top.pc = "run" THEN generateTaskId(nextTaskId) ELSE Top.taskId)

\* executeRecoveryStrategy was invoked for the failure reported: in this step,
\* or before the call waited for the processTask call of the recovery
RecoveryInvoked == Top.pc = "recovering" \/ recoveries' = recoveries + 1

C39_FalseWithoutStrategy ==
  [][ ReportsOwnFailure
        => /\ Val(Val(ret').failureAnalysis).recoveryStrategy = None
               => Val(ret').recoveryAttempted = Some(FALSE)
           /\ RecoveryInvoked => Val(ret').recoveryAttempted = Some(TRUE) ]_vars

\* a failure has been reported after a recovery that was attempted
C39_ReportedAfterRecovery ==
  /\ CallReturned
  /\ ~Val(ret).success
  /\ Val(ret).recoveryAttempted = Some(TRUE)
  /\ recoveries > 0

\* a failure has been reported for which no strategy was recommended
C39_ReportedWithoutStrategy ==
  /\ CallReturned
  /\ ~Val(ret).success
  /\ Val(ret).recoveryAttempted = Some(FALSE)
  /\ recoveries = 0

------------------------------------------------------------------------------
(* Cache hits and fingerprints *)

\* C40: no false cache hits.  retrieveSpecialistCache(T, S) returns an entry
\* only if that entry was stored for the same specialist S and for a task with
\* the same normalized fingerprint as T (domain, technology set, complexity
\* bucket, pattern-tag set); two tasks with different fingerprints never share
\* a cache entry.
C40_NoFalseCacheHits ==
  [][ (RetrieveStep /\ IsSome(cop'.returned))
        => /\ Val(cop'.returned).specialist = cop'.specialist
           /\ Equivalent(Val(cop'.returned).task, cop'.task) ]_vars

\* an entry returned was stored for the specialist asked for, under the key
\* of the task asked for
C40_HitsOfSameSpecialistAndKey ==
  [][ (RetrieveStep /\ IsSome(cop'.returned))
        => /\ Val(cop'.returned).specialist = cop'.specialist
           /\ Val(cop'.returned).cacheKey = KeysOf(cop'.task, cop'.specialist) ]_vars

\* a retrieval returned an entry stored for an equivalent task of another
\* complexity
C40_EquivalentHit ==
  /\ cop.name = "retrieveSpecialistCache"
  /\ IsSome(cop.returned)
  /\ Equivalent(Val(cop.returned).task, cop.task)
  /\ Val(cop.returned).task.complexity # cop.task.complexity

====
